---- MODULE Spec2Model ----
(***************************************************************************)
(* Model of the FQDN NetworkPolicy controller of the Antrea agent          *)
(* (pkg/agent/controller/networkpolicy/fqdn.go): selector index, DNS       *)
(* cache, query queue, rule sync tracker and DNS packet-in handler.        *)
(*                                                                         *)
(* A name or an FQDN expression is a sequence of one-character strings, so *)
(* that lower-casing, wildcard-to-regex conversion and regex matching are  *)
(* computed character by character as the code computes them.              *)
(***************************************************************************)
EXTENDS Integers, Sequences, FiniteSets, TLC

VARIABLES
  conf,                   \* fqdnController: minTTL, ipv4Enabled, ipv6Enabled, dnsServerAddr
  now,                    \* f.clock.Now(), in seconds
  fqdnToSelectorItem,     \* map: name -> set of selector items
  selectorItemToFQDN,     \* map: selector item -> set of names
  selectorItemToRuleIDs,  \* map: selector item -> set of rule IDs
  dnsEntryCache,          \* map: name -> (map: IP -> expirationTime)
  dnsQueryQueue,          \* the rate limited delaying work queue
  fqdnSelectorMutex,      \* 0 when free, else the packet whose goroutine holds it
  worker,                 \* map: name being processed -> position of its worker
  fqdnRuleToSelectedPods, \* map: rule ID -> set of ofPorts
  ofPorts,                \* datapath: address set of the DNS interception flow
  lastRuleCall,           \* history: the addFQDNRule or deleteFQDNRule call that failed, or its retry
  dirtyRules,             \* ruleSyncTracker.dirtyRules
  ruleToSubscribers,      \* ruleSyncTracker.ruleToSubscribers: rule -> sequence of subscribers
  subscribers,            \* map: subscriber -> rulesToSyncCount
  updateCh,               \* ruleSyncTracker.updateCh (buffered channel)
  trackerRun,             \* position of ruleSyncTracker.Run
  waitCh,                 \* per packet: buffer of the handler's waitCh
  pkt,                    \* per packet: position of HandlePacketIn and of its goroutine
  poked,                  \* reconciler: rules handed to dirtyRuleHandler, not yet reconciled
  notifying,              \* reconciler: rule -> result it has yet to report
  realized,               \* reconciler: rule -> IPs the datapath flows of the rule hold
  lastUpdate              \* per rule: result of the last realization update Run processed

vars == << conf, now, fqdnToSelectorItem, selectorItemToFQDN, selectorItemToRuleIDs,
           dnsEntryCache, dnsQueryQueue, fqdnSelectorMutex, worker, fqdnRuleToSelectedPods, ofPorts,
           lastRuleCall, dirtyRules, ruleToSubscribers, subscribers, updateCh, trackerRun,
           waitCh, pkt, poked, notifying, realized, lastUpdate >>

-----------------------------------------------------------------------------
(* Bounds of the model *)

\* the clock stops advancing here
MaxTime == 3
\* number of HandlePacketIn invocations
NumPackets == 2

(* Program constants *)

\* ruleRealizationTimeout, in seconds
ruleRealizationTimeout == 2
\* capacity of ruleSyncTracker.updateCh
updateChCap == 1
\* capacity of the waitCh made by HandlePacketIn
waitChCap == 1

-----------------------------------------------------------------------------
(* Maps *)

EmptyMap == [x \in {} |-> {}]

MapPut(m, k, v) == [x \in (DOMAIN m) \cup {k} |-> IF x = k THEN v ELSE m[x]]

MapDel(m, k) == [x \in (DOMAIN m) \ {k} |-> m[x]]

\* m[k] of a Go map of sets: the zero value (nil set) when the key is absent
MapGet(m, k) == IF k \in DOMAIN m THEN m[k] ELSE {}

-----------------------------------------------------------------------------
(* Strings *)

UpperCase ==
  << "A", "B", "C", "D", "E", "F", "G", "H", "I", "J", "K", "L", "M",
     "N", "O", "P", "Q", "R", "S", "T", "U", "V", "W", "X", "Y", "Z" >>

LowerCase ==
  << "a", "b", "c", "d", "e", "f", "g", "h", "i", "j", "k", "l", "m",
     "n", "o", "p", "q", "r", "s", "t", "u", "v", "w", "x", "y", "z" >>

ToLowerChar(c) ==
  IF \E i \in 1..Len(UpperCase) : UpperCase[i] = c
  THEN LowerCase[CHOOSE i \in 1..Len(UpperCase) : UpperCase[i] = c]
  ELSE c

\* strings.ToLower
ToLower(s) == [i \in 1..Len(s) |-> ToLowerChar(s[i])]

\* strings.Contains(s, c) for a one-character c
Contains(s, c) == \E i \in 1..Len(s) : s[i] = c

RECURSIVE TrimLeft(_)
TrimLeft(s) == IF s # <<>> /\ Head(s) = " " THEN TrimLeft(Tail(s)) ELSE s

RECURSIVE TrimRight(_)
TrimRight(s) ==
  IF s # <<>> /\ s[Len(s)] = " " THEN TrimRight(SubSeq(s, 1, Len(s) - 1)) ELSE s

\* strings.TrimSpace
TrimSpace(s) == TrimRight(TrimLeft(s))

\* strings.ReplaceAll(s, c, rep) for a one-character c
RECURSIVE ReplaceAll(_, _, _)
ReplaceAll(s, c, rep) ==
  IF s = <<>> THEN <<>>
  ELSE (IF Head(s) = c THEN rep ELSE <<Head(s)>>) \o ReplaceAll(Tail(s), c, rep)

\* strings.TrimSuffix(s, ".")
TrimSuffixDot(s) ==
  IF s # <<>> /\ s[Len(s)] = "." THEN SubSeq(s, 1, Len(s) - 1) ELSE s

-----------------------------------------------------------------------------
(* Regular expressions, as far as toRegex produces them: literals, ".",    *)
(* a bracket class, "*" after an atom, and the anchors "^" and "$".        *)

\* index of the "]" that closes the class opened at re[i]
RECURSIVE ClassEnd(_, _)
ClassEnd(re, i) ==
  IF i > Len(re) THEN 0
  ELSE IF re[i] = "]" THEN i ELSE ClassEnd(re, i + 1)

\* the last index of the atom that starts at re[i]
AtomEnd(re, i) == IF re[i] = "[" THEN ClassEnd(re, i + 1) ELSE i

\* whether the atom re[i..e] matches the character c
AtomMatches(re, i, e, c) ==
  IF re[i] = "[" THEN \E k \in (i + 1)..(e - 1) : re[k] = c
  ELSE IF re[i] = "." THEN TRUE
  ELSE re[i] = c

\* whether re[i..] matches s[j..] up to the end of s
RECURSIVE MatchHere(_, _, _, _)
MatchHere(re, i, s, j) ==
  IF i > Len(re) THEN TRUE
  ELSE IF re[i] = "$" /\ i = Len(re) THEN j > Len(s)
  ELSE
    LET e == AtomEnd(re, i)
    IN IF e < i THEN FALSE
       ELSE IF e < Len(re) /\ re[e + 1] = "*"
       THEN \E k \in j..(Len(s) + 1) :
              /\ \A m \in j..(k - 1) : AtomMatches(re, i, e, s[m])
              /\ MatchHere(re, e + 2, s, k)
       ELSE /\ j <= Len(s)
            /\ AtomMatches(re, i, e, s[j])
            /\ MatchHere(re, e + 1, s, j + 1)

\* regexp.MatchString(re, s)
MatchString(re, s) ==
  IF re # <<>> /\ Head(re) = "^"
  THEN MatchHere(re, 2, s, 1)
  ELSE \E j \in 1..(Len(s) + 1) : MatchHere(re, 1, s, j)

-----------------------------------------------------------------------------
(* Selector items *)

\* a toRegex that leaves the "." of the expression as it is
toRegexUnescaped(pattern) ==
  <<"^">> \o ReplaceAll(TrimSpace(pattern), "*", <<".", "*">>) \o <<"$">>

\* toRegex
toRegex(pattern) ==
  LET p1 == TrimSpace(pattern)
      p2 == ReplaceAll(p1, ".", <<"[", ".", "]">>)
      p3 == ReplaceAll(p2, "*", <<".", "*">>)
  IN <<"^">> \o p3 \o <<"$">>

\* fqdnToSelectorItem (the function, not the field of the same name)
SelectorItemOf(fqdn) ==
  LET l == ToLower(fqdn)
  IN IF Contains(l, "*")
     THEN [matchName |-> <<>>, matchRegex |-> toRegex(l)]
     ELSE [matchName |-> l, matchRegex |-> <<>>]

\* fqdnSelectorItem.matches
matches(fs, fqdn) ==
  IF fs.matchRegex # <<>> THEN MatchString(fs.matchRegex, fqdn)
  ELSE fs.matchName = fqdn

-----------------------------------------------------------------------------
(* dnsQueryQueue: a deduplicating, delaying, rate limited work queue.  The *)
(* items waiting to be popped are dirty \ processing.                      *)

\* base and cap of the exponential failure rate limiter, in seconds
minRetryDelay == 1
maxRetryDelay == 2

EmptyQueue == [dirty |-> {}, processing |-> {}, waiting |-> EmptyMap, failures |-> EmptyMap]

\* the items a worker can pop
QueueReady(q) == q.dirty \ q.processing

\* workqueue Add
QueueAdd(q, item) == [q EXCEPT !.dirty = @ \cup {item}]

\* workqueue Get, for the item popped
QueueGet(q, item) ==
  [q EXCEPT !.processing = @ \cup {item}, !.dirty = @ \ {item}]

\* workqueue Done
QueueDone(q, item) == [q EXCEPT !.processing = @ \ {item}]

\* workqueue AddAfter at time t: an entry already waiting keeps the earlier time
QueueAddAfter(q, item, d, t) ==
  IF d <= 0 THEN QueueAdd(q, item)
  ELSE IF item \in DOMAIN q.waiting /\ q.waiting[item] <= t + d THEN q
  ELSE [q EXCEPT !.waiting = MapPut(@, item, t + d)]

\* ItemExponentialFailureRateLimiter.When: min(base * 2^failures, cap)
RECURSIVE Backoff(_)
Backoff(n) ==
  IF n = 0 THEN minRetryDelay
  ELSE IF 2 * Backoff(n - 1) >= maxRetryDelay THEN maxRetryDelay
  ELSE 2 * Backoff(n - 1)

\* the failure count is kept up to the count at which the backoff reaches its cap
RECURSIVE BackoffSaturation(_)
BackoffSaturation(n) ==
  IF Backoff(n) >= maxRetryDelay THEN n ELSE BackoffSaturation(n + 1)

\* workqueue AddRateLimited at time t
QueueAddRateLimited(q, item, t) ==
  LET n == IF item \in DOMAIN q.failures THEN q.failures[item] ELSE 0
      n1 == IF n >= BackoffSaturation(0) THEN n ELSE n + 1
      q1 == [q EXCEPT !.failures = MapPut(@, item, n1)]
  IN QueueAddAfter(q1, item, Backoff(n), t)

\* workqueue Forget
QueueForget(q, item) == [q EXCEPT !.failures = MapDel(@, item)]

-----------------------------------------------------------------------------
(* Selector index and DNS cache.  The operators below take and return the  *)
(* part of the controller that fqdnSelectorMutex protects, as a record c   *)
(* with the fields fqdnToSelectorItem, selectorItemToFQDN,                 *)
(* selectorItemToRuleIDs, dnsEntryCache and dnsQueryQueue.                 *)

Controller ==
  [fqdnToSelectorItem |-> fqdnToSelectorItem,
   selectorItemToFQDN |-> selectorItemToFQDN,
   selectorItemToRuleIDs |-> selectorItemToRuleIDs,
   dnsEntryCache |-> dnsEntryCache,
   dnsQueryQueue |-> dnsQueryQueue]

\* a setFQDNMatchSelector that records the match under the name alone
SetNameSideOnly(c, fqdn, selectorItem) ==
  [c EXCEPT !.fqdnToSelectorItem =
              MapPut(@, fqdn, MapGet(@, fqdn) \cup {selectorItem})]

\* setFQDNMatchSelector
setFQDNMatchSelector(c, fqdn, selectorItem) ==
  [c EXCEPT
     !.fqdnToSelectorItem =
        MapPut(@, fqdn, MapGet(@, fqdn) \cup {selectorItem}),
     !.selectorItemToFQDN =
        MapPut(@, selectorItem, MapGet(@, selectorItem) \cup {fqdn})]

\* setFQDNMatchSelector(fqdn, selectorItem) for every fqdn of a set
RECURSIVE SetMatchNames(_, _, _)
SetMatchNames(c, fqdnSet, selectorItem) ==
  IF fqdnSet = {} THEN c
  ELSE LET fqdn == CHOOSE x \in fqdnSet : TRUE
       IN SetMatchNames(setFQDNMatchSelector(c, fqdn, selectorItem),
                        fqdnSet \ {fqdn}, selectorItem)

\* a first response that maps the name to one matching selector and stops
SetFirstMatchOnly(c, fqdn, selectorSet) ==
  IF selectorSet = {} THEN c
  ELSE setFQDNMatchSelector(c, fqdn, CHOOSE x \in selectorSet : TRUE)

\* setFQDNMatchSelector(fqdn, selectorItem) for every selectorItem of a set
RECURSIVE SetMatchSelectors(_, _, _)
SetMatchSelectors(c, fqdn, selectorSet) ==
  IF selectorSet = {} THEN c
  ELSE LET fs == CHOOSE x \in selectorSet : TRUE
       IN SetMatchSelectors(setFQDNMatchSelector(c, fqdn, fs), fqdn,
                            selectorSet \ {fs})

\* an addFQDNSelector that does not scan the cache for a new wildcard selector
AddSkipsCacheScan(c, ruleID, fqdn) ==
  LET fs == SelectorItemOf(fqdn)
  IN IF fs \notin DOMAIN c.selectorItemToRuleIDs
     THEN LET c1 == [c EXCEPT !.selectorItemToRuleIDs = MapPut(@, fs, {ruleID})]
          IN IF fs.matchRegex # <<>>
             THEN c1
             ELSE LET c2 == setFQDNMatchSelector(c1, fs.matchName, fs)
                  IN [c2 EXCEPT !.dnsQueryQueue = QueueAdd(@, fs.matchName)]
     ELSE [c EXCEPT !.selectorItemToRuleIDs[fs] = @ \cup {ruleID}]

\* an addFQDNSelector that queries the exact name again for every rule added
AddRequeriesExisting(c, ruleID, fqdn) ==
  LET fs == SelectorItemOf(fqdn)
  IN IF fs \notin DOMAIN c.selectorItemToRuleIDs
     THEN LET c1 == [c EXCEPT !.selectorItemToRuleIDs = MapPut(@, fs, {ruleID})]
          IN IF fs.matchRegex # <<>>
             THEN SetMatchNames(c1,
                                {n \in DOMAIN c1.dnsEntryCache : matches(fs, n)},
                                fs)
             ELSE LET c2 == setFQDNMatchSelector(c1, fs.matchName, fs)
                  IN [c2 EXCEPT !.dnsQueryQueue = QueueAdd(@, fs.matchName)]
     ELSE [c EXCEPT !.selectorItemToRuleIDs[fs] = @ \cup {ruleID},
                    !.dnsQueryQueue = IF fs.matchRegex # <<>> THEN @
                                      ELSE QueueAdd(@, fs.matchName)]

\* addFQDNSelector: the body of the loop, for one FQDN expression
AddOneSelector(c, ruleID, fqdn) ==
  LET fs == SelectorItemOf(fqdn)
  IN IF fs \notin DOMAIN c.selectorItemToRuleIDs
     THEN LET c1 == [c EXCEPT !.selectorItemToRuleIDs = MapPut(@, fs, {ruleID})]
          IN IF fs.matchRegex # <<>>
             THEN SetMatchNames(c1,
                                {n \in DOMAIN c1.dnsEntryCache : matches(fs, n)},
                                fs)
             ELSE LET c2 == setFQDNMatchSelector(c1, fs.matchName, fs)
                  IN [c2 EXCEPT !.dnsQueryQueue = QueueAdd(@, fs.matchName)]
     ELSE [c EXCEPT !.selectorItemToRuleIDs[fs] = @ \cup {ruleID}]

\* addFQDNSelector
RECURSIVE addFQDNSelector(_, _, _)
addFQDNSelector(c, ruleID, fqdns) ==
  IF fqdns = <<>> THEN c
  ELSE addFQDNSelector(AddOneSelector(c, ruleID, Head(fqdns)), ruleID, Tail(fqdns))

\* a cleanup that leaves the cache entry of a name no selector selects
CleanupKeepsCache(c, fs, fqdn) ==
  LET selectors == MapGet(c.fqdnToSelectorItem, fqdn)
  IN IF fs \in selectors
     THEN IF selectors \ {fs} = {}
          THEN [c EXCEPT !.fqdnToSelectorItem = MapDel(@, fqdn)]
          ELSE [c EXCEPT !.fqdnToSelectorItem[fqdn] = selectors \ {fs}]
     ELSE c

\* cleanupFQDNSelectorItem: the body of the loop, for one name
CleanupOneName(c, fs, fqdn) ==
  LET selectors == MapGet(c.fqdnToSelectorItem, fqdn)
  IN IF fs \in selectors
     THEN IF selectors \ {fs} = {}
          THEN [c EXCEPT !.fqdnToSelectorItem = MapDel(@, fqdn),
                         !.dnsEntryCache = MapDel(@, fqdn)]
          ELSE [c EXCEPT !.fqdnToSelectorItem[fqdn] = selectors \ {fs}]
     ELSE c

RECURSIVE CleanupNames(_, _, _)
CleanupNames(c, fs, fqdnSet) ==
  IF fqdnSet = {} THEN c
  ELSE LET fqdn == CHOOSE x \in fqdnSet : TRUE
       IN CleanupNames(CleanupOneName(c, fs, fqdn), fs, fqdnSet \ {fqdn})

\* cleanupFQDNSelectorItem
cleanupFQDNSelectorItem(c, fs) ==
  LET c1 == CleanupNames(c, fs, MapGet(c.selectorItemToFQDN, fs))
  IN [c1 EXCEPT !.selectorItemToFQDN = MapDel(@, fs),
                !.selectorItemToRuleIDs = MapDel(@, fs)]

\* a deleteFQDNSelector that cleans the selector up whatever rules remain
DeleteAlwaysCleans(c, ruleID, fqdn) ==
  LET fs == SelectorItemOf(fqdn)
  IN IF fs \in DOMAIN c.selectorItemToRuleIDs /\ ruleID \in c.selectorItemToRuleIDs[fs]
     THEN cleanupFQDNSelectorItem(c, fs)
     ELSE c

\* a deleteFQDNSelector that keeps a selector whose last rule is deleted
DeleteLeavesEmptySet(c, ruleID, fqdn) ==
  LET fs == SelectorItemOf(fqdn)
  IN IF fs \in DOMAIN c.selectorItemToRuleIDs /\ ruleID \in c.selectorItemToRuleIDs[fs]
     THEN [c EXCEPT !.selectorItemToRuleIDs[fs] = @ \ {ruleID}]
     ELSE c

\* deleteFQDNSelector: the body of the loop, for one FQDN expression
DeleteOneSelector(c, ruleID, fqdn) ==
  LET fs == SelectorItemOf(fqdn)
  IN IF fs \in DOMAIN c.selectorItemToRuleIDs /\ ruleID \in c.selectorItemToRuleIDs[fs]
     THEN LET remainingRules == c.selectorItemToRuleIDs[fs] \ {ruleID}
          IN IF remainingRules # {}
             THEN [c EXCEPT !.selectorItemToRuleIDs[fs] = remainingRules]
             ELSE cleanupFQDNSelectorItem(c, fs)
     ELSE c

\* deleteFQDNSelector
RECURSIVE deleteFQDNSelector(_, _, _)
deleteFQDNSelector(c, ruleID, fqdns) ==
  IF fqdns = <<>> THEN c
  ELSE deleteFQDNSelector(DeleteOneSelector(c, ruleID, Head(fqdns)), ruleID,
                          Tail(fqdns))

-----------------------------------------------------------------------------
(* Response merge *)

\* a laterOf that always takes the time of the new response
NewerOf(t1, t2) == t1

\* laterOf
laterOf(t1, t2) == IF t1 > t2 THEN t1 ELSE t2

\* the latest value of a non-empty set of times
Latest(S) == CHOOSE t \in S : \A u \in S : t >= u

\* the earliest value of a non-empty set of times
Earliest(S) == CHOOSE t \in S : \A u \in S : t <= u

\* a merge that drops every cached IP absent from the response
MergeDropsAbsent(cached, newIPs, t) ==
  [ip \in DOMAIN newIPs |->
     IF ip \in DOMAIN cached THEN laterOf(newIPs[ip], cached[ip]) ELSE newIPs[ip]]

\* onDNSResponse, lines 446-474: the merge of a response into the entry of
\* a cached name, at time t; a map IP -> expirationTime
MergeCached(cached, newIPs, t) ==
  LET kept == {ip \in DOMAIN cached :
                 ip \in DOMAIN newIPs \/ ~(cached[ip] < t)}
  IN [ip \in (DOMAIN newIPs) \cup kept |->
        IF ip \notin DOMAIN cached THEN newIPs[ip]
        ELSE IF ip \in DOMAIN newIPs THEN laterOf(newIPs[ip], cached[ip])
        ELSE cached[ip]]

\* a merge that signals an address update for a new IP only
UpdatesOnNewOnly(cached, newIPs, t) ==
  \E ip \in DOMAIN newIPs : ip \notin DOMAIN cached

\* onDNSResponse, lines 446-474: whether the merge signals an address update
MergeUpdates(cached, newIPs, t) ==
  \/ \E ip \in DOMAIN newIPs : ip \notin DOMAIN cached
  \/ \E ip \in DOMAIN cached : ip \notin DOMAIN newIPs /\ cached[ip] < t

\* an onDNSResponse that caches the addresses of every name
MergeUnmatched(c, fqdn, newIPs, t) ==
  [c |-> [c EXCEPT !.dnsEntryCache = MapPut(@, fqdn, newIPs)], addressUpdate |-> TRUE]

\* an onDNSResponse that stores the entry of the name even when it is empty
MergeStoresEmpty(c, fqdn, newIPs, t) ==
  LET exist == fqdn \in DOMAIN c.dnsEntryCache
      matching == {fs \in DOMAIN c.selectorItemToRuleIDs : matches(fs, fqdn)}
      c1 == IF exist THEN c ELSE SetMatchSelectors(c, fqdn, matching)
      ipWithExpirationMap ==
        IF exist THEN MergeCached(c.dnsEntryCache[fqdn], newIPs, t)
        ELSE IF matching # {} THEN newIPs
        ELSE EmptyMap
      addressUpdate ==
        IF exist THEN MergeUpdates(c.dnsEntryCache[fqdn], newIPs, t)
        ELSE matching # {}
      c2 == IF DOMAIN ipWithExpirationMap # {}
            THEN LET timeToRequery ==
                       Earliest({ipWithExpirationMap[ip] : ip \in DOMAIN ipWithExpirationMap})
                 IN [c1 EXCEPT
                       !.dnsEntryCache = MapPut(@, fqdn, ipWithExpirationMap),
                       !.dnsQueryQueue = QueueAddAfter(@, fqdn, timeToRequery - t, t)]
            ELSE [c1 EXCEPT !.dnsEntryCache = MapPut(@, fqdn, ipWithExpirationMap)]
  IN [c |-> c2, addressUpdate |-> addressUpdate]

\* onDNSResponse, lines 429-504, for a non-empty response: the new state of
\* the controller and addressUpdate
MergeResponse(c, fqdn, newIPs, t) ==
  LET exist == fqdn \in DOMAIN c.dnsEntryCache
      matching == {fs \in DOMAIN c.selectorItemToRuleIDs : matches(fs, fqdn)}
      c1 == IF exist THEN c ELSE SetMatchSelectors(c, fqdn, matching)
      ipWithExpirationMap ==
        IF exist THEN MergeCached(c.dnsEntryCache[fqdn], newIPs, t)
        ELSE IF matching # {} THEN newIPs
        ELSE EmptyMap
      addressUpdate ==
        IF exist THEN MergeUpdates(c.dnsEntryCache[fqdn], newIPs, t)
        ELSE matching # {}
      c2 == IF DOMAIN ipWithExpirationMap # {}
            THEN LET timeToRequery ==
                       Earliest({ipWithExpirationMap[ip] : ip \in DOMAIN ipWithExpirationMap})
                 IN [c1 EXCEPT
                       !.dnsEntryCache = MapPut(@, fqdn, ipWithExpirationMap),
                       !.dnsQueryQueue = QueueAddAfter(@, fqdn, timeToRequery - t, t)]
            ELSE c1
  IN [c |-> c2, addressUpdate |-> addressUpdate]

\* syncDirtyRules, lines 533-536: the rules of the selectors mapped to the name
AffectedRules(c, fqdn) ==
  UNION {MapGet(c.selectorItemToRuleIDs, fs) : fs \in MapGet(c.fqdnToSelectorItem, fqdn)}

\* getIPsForFQDNSelectors: the IPs collected (an unknown selector ends the loop)
RECURSIVE getIPsForFQDNSelectors(_, _)
getIPsForFQDNSelectors(c, fqdns) ==
  IF fqdns = <<>> THEN {}
  ELSE LET fs == SelectorItemOf(Head(fqdns))
       IN IF fs \notin DOMAIN c.selectorItemToFQDN THEN {}
          ELSE UNION {DOMAIN c.dnsEntryCache[n] :
                        n \in c.selectorItemToFQDN[fs] \cap DOMAIN c.dnsEntryCache}
               \cup getIPsForFQDNSelectors(c, Tail(fqdns))

-----------------------------------------------------------------------------
(* DNS messages: a record with the question names and the answer records   *)

\* a parseDNSResponse that keeps the addresses of both families whatever
\* the configuration
RECURSIVE ResponseIPsUnfiltered(_, _, _)
ResponseIPsUnfiltered(answers, cfg, t) ==
  IF answers = <<>> THEN EmptyMap
  ELSE LET r == answers[Len(answers)]
           rest == ResponseIPsUnfiltered(SubSeq(answers, 1, Len(answers) - 1), cfg, t)
           ttl == IF cfg.minTTL > r.ttl THEN cfg.minTTL ELSE r.ttl
       IN IF r.type \in {"A", "AAAA"} THEN MapPut(rest, r.ip, t + ttl) ELSE rest

\* parseDNSResponse, lines 642-660: the map IP -> expirationTime of the answers
RECURSIVE ResponseIPs(_, _, _)
ResponseIPs(answers, cfg, t) ==
  IF answers = <<>> THEN EmptyMap
  ELSE LET r == answers[Len(answers)]
           rest == ResponseIPs(SubSeq(answers, 1, Len(answers) - 1), cfg, t)
           ttl == IF cfg.minTTL > r.ttl THEN cfg.minTTL ELSE r.ttl
       IN IF \/ r.type = "A" /\ cfg.ipv4Enabled
             \/ r.type = "AAAA" /\ cfg.ipv6Enabled
          THEN MapPut(rest, r.ip, t + ttl)
          ELSE rest

\* parseDNSResponse
parseDNSResponse(msg, cfg, t) ==
  IF msg.question = <<>>
  THEN [err |-> TRUE, fqdn |-> <<>>, responseIPs |-> EmptyMap]
  ELSE [err |-> FALSE,
        fqdn |-> TrimSuffixDot(ToLower(msg.question[1])),
        responseIPs |-> ResponseIPs(msg.answers, cfg, t)]

\* a goroutine that hands the message to onDNSResponseMsg whether or not the
\* payload unpacked
ParseWithoutUnpackCheck(pktIn) ==
  IF ~pktIn.ethOk THEN "nil"
  ELSE IF pktIn.l3 \notin {"IPv4", "IPv6"} THEN "none"
  ELSE IF pktIn.l4 = "UDP" THEN "dns"
  ELSE IF pktIn.l4 = "TCP"
  THEN (IF ~pktIn.tcpOk \/ ~pktIn.dnsLenOk THEN "nil" ELSE "dns")
  ELSE "none"

\* HandlePacketIn, lines 775-849: what the goroutine does with the packet:
\* "nil" (it sends nil on waitCh), "none" (it returns without sending) or
\* "dns" (it hands the unpacked message to onDNSResponseMsg)
ParsePacketIn(pktIn) ==
  LET handleUDP == IF ~pktIn.unpackOk THEN "nil" ELSE "dns"
      handleTCP == IF ~pktIn.dnsLenOk THEN "nil"
                   ELSE IF pktIn.fragment
                   THEN (IF ~pktIn.partialOk THEN "nil" ELSE "dns")
                   ELSE (IF ~pktIn.unpackOk THEN "nil" ELSE "dns")
  IN IF ~pktIn.ethOk THEN "nil"
     ELSE IF pktIn.l3 \notin {"IPv4", "IPv6"} THEN "none"
     ELSE IF pktIn.l4 = "UDP" THEN handleUDP
     ELSE IF pktIn.l4 = "TCP" THEN (IF ~pktIn.tcpOk THEN "nil" ELSE handleTCP)
     ELSE "none"

-----------------------------------------------------------------------------
(* ruleSyncTracker.  The subscriber of a packet is named by the packet.    *)

Packets == 1..NumPackets

\* a send on a waitCh: the channel after the send
ChanSend(ch, v) == [buf |-> Append(ch.buf, v), sent |-> ch.sent + 1]

\* whether a send on the channel goes through without a receiver
ChanHasRoom(ch) == Len(ch.buf) < waitChCap

\* a Run that leaves rulesToSyncCount as it is when it reports an error
RECURSIVE RunLoopKeepsCount(_, _, _)
RunLoopKeepsCount(st, subs, isErr) ==
  IF subs = <<>> THEN [st |-> st, rest |-> <<>>]
  ELSE LET s == Head(subs)
           sent == [subscribers |-> [st.subscribers EXCEPT ![s] = IF isErr THEN @ ELSE 0],
                    waitCh |-> [st.waitCh EXCEPT
                                  ![s] = ChanSend(@, IF isErr THEN "err" ELSE "nil")]]
       IN IF isErr
          THEN IF ChanHasRoom(st.waitCh[s])
               THEN RunLoopKeepsCount(sent, Tail(subs), isErr)
               ELSE [st |-> st, rest |-> subs]
          ELSE IF st.subscribers[s] = 0
          THEN RunLoopKeepsCount(st, Tail(subs), isErr)
          ELSE IF st.subscribers[s] - 1 = 0
          THEN IF ChanHasRoom(st.waitCh[s])
               THEN RunLoopKeepsCount(sent, Tail(subs), isErr)
               ELSE [st |-> [st EXCEPT !.subscribers[s] = 0], rest |-> subs]
          ELSE RunLoopKeepsCount([st EXCEPT !.subscribers[s] = @ - 1], Tail(subs), isErr)

\* ruleSyncTracker.Run, lines 596-612: the loop over the subscribers subs of
\* the rule of an update, from the state st (subscribers, waitCh).  It stops at
\* a send that blocks and returns the subscribers still to be served, the
\* first of which is the one whose send is pending.
RECURSIVE RunLoop(_, _, _)
RunLoop(st, subs, isErr) ==
  IF subs = <<>> THEN [st |-> st, rest |-> <<>>]
  ELSE LET s == Head(subs)
           sent == [subscribers |-> [st.subscribers EXCEPT ![s] = 0],
                    waitCh |-> [st.waitCh EXCEPT
                                  ![s] = ChanSend(@, IF isErr THEN "err" ELSE "nil")]]
       IN IF isErr
          THEN IF ChanHasRoom(st.waitCh[s])
               THEN RunLoop(sent, Tail(subs), isErr)
               ELSE [st |-> st, rest |-> subs]
          ELSE IF st.subscribers[s] = 0
          THEN RunLoop(st, Tail(subs), isErr)
          ELSE IF st.subscribers[s] - 1 = 0
          THEN IF ChanHasRoom(st.waitCh[s])
               THEN RunLoop(sent, Tail(subs), isErr)
               ELSE [st |-> [st EXCEPT !.subscribers[s] = 0], rest |-> subs]
          ELSE RunLoop([st EXCEPT !.subscribers[s] = @ - 1], Tail(subs), isErr)

\* ruleSyncTracker.Run: the loop taken up again once the pending send to the
\* first of subs has gone through
ResumeLoop(st, subs, isErr) ==
  LET s == Head(subs)
      sent == [subscribers |-> [st.subscribers EXCEPT ![s] = 0],
               waitCh |-> [st.waitCh EXCEPT
                             ![s] = ChanSend(@, IF isErr THEN "err" ELSE "nil")]]
  IN RunLoop(sent, Tail(subs), isErr)

\* a Run that deletes the rule from dirtyRules whatever the update reports
DirtyAfterAnyUpdate(dirty, update) == dirty \ {update.ruleId}

\* ruleSyncTracker.Run, lines 615-618: dirtyRules after the update is processed
DirtyAfterUpdate(dirty, update) ==
  IF ~update.err THEN dirty \ {update.ruleId} ELSE dirty

\* a subscribe that appends the subscriber to the list of one rule only
SubscribeFirstRuleOnly(r2s, s, rules) ==
  LET first == CHOOSE r \in rules : TRUE
  IN [r \in (DOMAIN r2s) \cup {first} |->
        IF r = first
        THEN Append(IF r \in DOMAIN r2s THEN r2s[r] ELSE <<>>, s)
        ELSE r2s[r]]

\* ruleSyncTracker.subscribe: ruleToSubscribers after the subscription
SubscribeRules(r2s, s, rules) ==
  [r \in (DOMAIN r2s) \cup rules |->
     IF r \in rules
     THEN Append(IF r \in DOMAIN r2s THEN r2s[r] ELSE <<>>, s)
     ELSE r2s[r]]

-----------------------------------------------------------------------------
(* Rule to ports map and the address set of the DNS interception flow *)

\* the union of the port sets of all rules
PortUnion(m) == UNION {m[r] : r \in DOMAIN m}

\* updateRuleSelectedPods: the map, the datapath address set and the error
updateRuleSelectedPods(m, dp, ruleID, podOFAddrs, addFails, delFails) ==
  LET m1 == MapPut(m, ruleID, podOFAddrs)
      addedPods == PortUnion(m1) \ PortUnion(m)
      removedPods == PortUnion(m) \ PortUnion(m1)
      dp1 == dp \cup addedPods
  IN IF addedPods # {} /\ addFails
     THEN [map |-> m1, ofPorts |-> dp, err |-> TRUE]
     ELSE IF removedPods # {} /\ delFails
     THEN [map |-> m1, ofPorts |-> dp1, err |-> TRUE]
     ELSE [map |-> m1, ofPorts |-> dp1 \ removedPods, err |-> FALSE]

\* a deleteRuleSelectedPods that removes every port of the deleted rule
DeleteRemovesRulePorts(m, dp, ruleID, delFails) ==
  IF ruleID \notin DOMAIN m THEN [map |-> m, ofPorts |-> dp, err |-> FALSE]
  ELSE IF m[ruleID] # {} /\ delFails
  THEN [map |-> MapDel(m, ruleID), ofPorts |-> dp, err |-> TRUE]
  ELSE [map |-> MapDel(m, ruleID), ofPorts |-> dp \ m[ruleID], err |-> FALSE]

\* deleteRuleSelectedPods: the map, the datapath address set and the error
deleteRuleSelectedPods(m, dp, ruleID, delFails) ==
  IF ruleID \notin DOMAIN m THEN [map |-> m, ofPorts |-> dp, err |-> FALSE]
  ELSE LET m1 == MapDel(m, ruleID)
           removedPods == PortUnion(m) \ PortUnion(m1)
       IN IF removedPods # {} /\ delFails
          THEN [map |-> m1, ofPorts |-> dp, err |-> TRUE]
          ELSE [map |-> m1, ofPorts |-> dp \ removedPods, err |-> FALSE]

-----------------------------------------------------------------------------
(* Inputs of the model *)

nameAX == <<"a", ".", "x">>
nameBX == <<"b", ".", "x">>
nameCY == <<"c", ".", "y">>

\* the rules the policy controller adds and deletes, and their FQDN expressions
Rules == {"R1", "R2", "R3"}

RuleFQDNs(r) ==
  IF r = "R1" THEN << <<"A", ".", "x">> >>
  ELSE IF r = "R2" THEN << <<"*", ".", "x">> >>
  ELSE IF r = "R3" THEN << <<"a", ".", "x">>, <<"b", "*", ".", "x">> >>
  ELSE IF r = "R4" THEN << <<"*", ".", "k", "8", "s", ".", "i", "o">> >>
  ELSE << <<"K", "8", "s", ".", "I", "O">> >>

\* the name as it stands in the question section of a message
QuestionName(n) == n \o <<".">>

NoPacketIn ==
  [ethOk |-> FALSE, l3 |-> "", l4 |-> "", tcpOk |-> FALSE, dnsLenOk |-> FALSE,
   fragment |-> FALSE, partialOk |-> FALSE, unpackOk |-> FALSE,
   msg |-> [question |-> <<>>, answers |-> <<>>]]

\* a UDP packet that carries the DNS message msg
UDPPacketIn(msg) ==
  [ethOk |-> TRUE, l3 |-> "IPv4", l4 |-> "UDP", tcpOk |-> FALSE, dnsLenOk |-> FALSE,
   fragment |-> FALSE, partialOk |-> FALSE, unpackOk |-> TRUE, msg |-> msg]

\* a response for the name n with one A record
AResponse(n, ip, ttl) ==
  [question |-> <<QuestionName(n)>>,
   answers |-> << [type |-> "A", ip |-> ip, ttl |-> ttl] >>]

-----------------------------------------------------------------------------
(* Initial state: newFQDNController *)

NoUpdate == [ruleId |-> "", err |-> FALSE]

\* no call of addFQDNRule or deleteFQDNRule has failed
NoRuleCall == [kind |-> "none", ruleID |-> "", ports |-> {}, retry |-> FALSE]

\* the history of the calls after the call call has returned err: a call that
\* failed is kept; a call that succeeded is kept, as a retry, when it repeats
\* the call that failed just before it
AfterRuleCall(last, call, err) ==
  IF err THEN [call EXCEPT !.retry = FALSE]
  ELSE IF last = [call EXCEPT !.retry = FALSE] THEN [call EXCEPT !.retry = TRUE]
  ELSE NoRuleCall

EmptyController ==
  [fqdnToSelectorItem |-> EmptyMap, selectorItemToFQDN |-> EmptyMap,
   selectorItemToRuleIDs |-> EmptyMap, dnsEntryCache |-> EmptyMap,
   dnsQueryQueue |-> EmptyQueue]

\* the state in which the controller is configured by cfg, its selector index,
\* cache and queue are those of c and its rule to ports map is m
InitWith(cfg, c, m) ==
  /\ conf = cfg
  /\ now = 0
  /\ fqdnToSelectorItem = c.fqdnToSelectorItem
  /\ selectorItemToFQDN = c.selectorItemToFQDN
  /\ selectorItemToRuleIDs = c.selectorItemToRuleIDs
  /\ dnsEntryCache = c.dnsEntryCache
  /\ dnsQueryQueue = c.dnsQueryQueue
  /\ fqdnSelectorMutex = 0
  /\ worker = EmptyMap
  /\ fqdnRuleToSelectedPods = m
  /\ ofPorts = PortUnion(m)
  /\ lastRuleCall = NoRuleCall
  /\ dirtyRules = {}
  /\ ruleToSubscribers = EmptyMap
  /\ subscribers = [p \in Packets |-> 0]
  /\ updateCh = <<>>
  /\ trackerRun = [update |-> NoUpdate, rest |-> <<>>]
  /\ waitCh = [p \in Packets |-> [buf |-> <<>>, sent |-> 0]]
  /\ pkt = [p \in Packets |->
              [handler |-> "idle", go |-> "none", in |-> NoPacketIn, start |-> 0,
               snapshot |-> {}, affected |-> {}, subscribed |-> {},
               recv |-> "none", resumes |-> 0]]
  /\ poked = {}
  /\ notifying = EmptyMap
  /\ realized = [r \in Rules |-> {}]
  /\ lastUpdate = [r \in Rules |-> "none"]

ctlVars == << fqdnToSelectorItem, selectorItemToFQDN, selectorItemToRuleIDs,
              dnsEntryCache, dnsQueryQueue >>
portVars == << fqdnRuleToSelectedPods, ofPorts, lastRuleCall >>
trackerVars == << dirtyRules, ruleToSubscribers, subscribers, updateCh, trackerRun,
                  lastUpdate >>
reconcilerVars == << poked, notifying, realized >>

\* the controller part of the next state is the record c
SetController(c) ==
  /\ fqdnToSelectorItem' = c.fqdnToSelectorItem
  /\ selectorItemToFQDN' = c.selectorItemToFQDN
  /\ selectorItemToRuleIDs' = c.selectorItemToRuleIDs
  /\ dnsEntryCache' = c.dnsEntryCache
  /\ dnsQueryQueue' = c.dnsQueryQueue

-----------------------------------------------------------------------------
(* Policy controller: addFQDNRule and deleteFQDNRule *)

\* addFQDNRule(ruleID, RuleFQDNs(ruleID), podOFAddrs)
AddFQDNRule(ruleID, podOFAddrs, addFails, delFails) ==
  LET res == updateRuleSelectedPods(fqdnRuleToSelectedPods, ofPorts, ruleID,
                                    podOFAddrs, addFails, delFails)
  IN /\ fqdnSelectorMutex = 0
     /\ SetController(addFQDNSelector(Controller, ruleID, RuleFQDNs(ruleID)))
     /\ fqdnRuleToSelectedPods' = res.map
     /\ ofPorts' = res.ofPorts
     /\ lastRuleCall' = AfterRuleCall(lastRuleCall,
                                      [kind |-> "add", ruleID |-> ruleID,
                                       ports |-> podOFAddrs, retry |-> FALSE],
                                      res.err)
     /\ UNCHANGED << conf, now, fqdnSelectorMutex, worker, trackerVars, waitCh, pkt,
                     reconcilerVars >>

\* deleteFQDNRule(ruleID, RuleFQDNs(ruleID))
DeleteFQDNRule(ruleID, delFails) ==
  LET res == deleteRuleSelectedPods(fqdnRuleToSelectedPods, ofPorts, ruleID, delFails)
  IN /\ fqdnSelectorMutex = 0
     /\ SetController(deleteFQDNSelector(Controller, ruleID, RuleFQDNs(ruleID)))
     /\ fqdnRuleToSelectedPods' = res.map
     /\ ofPorts' = res.ofPorts
     /\ lastRuleCall' = AfterRuleCall(lastRuleCall,
                                      [kind |-> "delete", ruleID |-> ruleID,
                                       ports |-> {}, retry |-> FALSE],
                                      res.err)
     /\ UNCHANGED << conf, now, fqdnSelectorMutex, worker, trackerVars, waitCh, pkt,
                     reconcilerVars >>

-----------------------------------------------------------------------------
(* Query scheduler: the workers and the delaying queue *)

\* lookupIP: the TTL given to the addresses of the host resolver, in seconds
defaultTTL == 600

\* makeDNSRequest and lookupIP: the queries of one work item, in order
Families(cfg) ==
  (IF cfg.ipv4Enabled THEN <<"A">> ELSE <<>>)
    \o (IF cfg.ipv6Enabled THEN <<"AAAA">> ELSE <<>>)

\* a proactive response that hands the rules of the name to dirtyRuleHandler
\* whether or not the addresses changed
ProactiveAlwaysPokes(c, fqdn, newIPs, t) ==
  IF DOMAIN newIPs = {} THEN [c |-> c, pokes |-> {}, locks |-> FALSE, failed |-> FALSE]
  ELSE CHOOSE res \in {[c |-> m.c, pokes |-> AffectedRules(m.c, fqdn),
                        locks |-> TRUE, failed |-> FALSE] :
                         m \in {MergeResponse(c, fqdn, newIPs, t)}} : TRUE

\* onDNSResponse with waitCh = nil: the controller after the response and the
\* rules handed to dirtyRuleHandler
ProactiveResponse(c, fqdn, newIPs, t) ==
  IF DOMAIN newIPs = {} THEN [c |-> c, pokes |-> {}, locks |-> FALSE, failed |-> FALSE]
  ELSE CHOOSE res \in {[c |-> m.c,
                        pokes |-> IF m.addressUpdate THEN AffectedRules(m.c, fqdn)
                                  ELSE {},
                        locks |-> TRUE,
                        failed |-> FALSE] : m \in {MergeResponse(c, fqdn, newIPs, t)}}
         : TRUE

\* makeDNSRequest, lines 755-759 and 762-766, and lookupIP, lines 714-718 and
\* 721-725: one query of the work item fqdn and what is done with its outcome
QueryOutcome(c, fqdn, out, cfg, t) ==
  IF out.kind = "error"
  THEN [c |-> c, pokes |-> {}, locks |-> FALSE, failed |-> TRUE]
  ELSE IF cfg.dnsServerAddr
  THEN LET parsed == parseDNSResponse(out.msg, cfg, t)
       IN IF parsed.err
          THEN [c |-> c, pokes |-> {}, locks |-> FALSE, failed |-> FALSE]
          ELSE ProactiveResponse(c, parsed.fqdn, parsed.responseIPs, t)
  ELSE ProactiveResponse(c, fqdn, [ip \in out.ips |-> t + defaultTTL], t)

\* handleErr, then the deferred dnsQueryQueue.Done
handleErr(q, failed, key, t) ==
  QueueDone(IF failed THEN QueueAddRateLimited(q, key, t) ELSE QueueForget(q, key),
            key)

\* processNextWorkItem: dnsQueryQueue.Get
WorkerGet(fqdn) ==
  /\ fqdn \in QueueReady(dnsQueryQueue)
  /\ IF Families(conf) = <<>>
     THEN /\ dnsQueryQueue' = handleErr(QueueGet(dnsQueryQueue, fqdn), FALSE, fqdn, now)
          /\ UNCHANGED worker
     ELSE /\ dnsQueryQueue' = QueueGet(dnsQueryQueue, fqdn)
          /\ worker' = MapPut(worker, fqdn, [todo |-> Families(conf), failed |-> FALSE])
  /\ UNCHANGED << conf, now, fqdnToSelectorItem, selectorItemToFQDN,
                  selectorItemToRuleIDs, dnsEntryCache, fqdnSelectorMutex, portVars,
                  trackerVars, waitCh, pkt, reconcilerVars >>

\* processNextWorkItem: the next query of the work item and, after the last
\* one, handleErr and Done
WorkerQuery(fqdn, out) ==
  /\ fqdn \in DOMAIN worker
  /\ out.kind \in (IF conf.dnsServerAddr THEN {"error", "msg"} ELSE {"error", "ips"})
  /\ out.kind = "msg" => out.msg.question = <<QuestionName(fqdn)>>
  /\ \E w \in {worker[fqdn]}, res \in {QueryOutcome(Controller, fqdn, out, conf, now)} :
     LET failed == w.failed \/ res.failed
     IN /\ res.locks => fqdnSelectorMutex = 0
        /\ poked' = poked \cup res.pokes
        /\ IF Tail(w.todo) = <<>>
           THEN /\ SetController([res.c EXCEPT
                                    !.dnsQueryQueue = handleErr(@, failed, fqdn, now)])
                /\ worker' = MapDel(worker, fqdn)
           ELSE /\ SetController(res.c)
                /\ worker' = [worker EXCEPT ![fqdn] = [todo |-> Tail(w.todo),
                                                      failed |-> failed]]
  /\ UNCHANGED << conf, now, fqdnSelectorMutex, portVars, trackerVars, waitCh, pkt,
                  notifying, realized >>

\* the delaying queue: a waiting entry whose time has come is added
QueueFire(fqdn) ==
  /\ fqdn \in DOMAIN dnsQueryQueue.waiting
  /\ dnsQueryQueue.waiting[fqdn] <= now
  /\ dnsQueryQueue' = QueueAdd([dnsQueryQueue EXCEPT !.waiting = MapDel(@, fqdn)], fqdn)
  /\ UNCHANGED << conf, now, fqdnToSelectorItem, selectorItemToFQDN,
                  selectorItemToRuleIDs, dnsEntryCache, fqdnSelectorMutex, worker,
                  portVars, trackerVars, waitCh, pkt, reconcilerVars >>

-----------------------------------------------------------------------------
(* Rule reconciler *)

\* the reconciler syncs a rule handed to dirtyRuleHandler: on success the
\* flows of the rule hold the addresses getIPsForFQDNSelectors returns
Reconcile(ruleID, ok) ==
  /\ ruleID \in poked
  /\ ruleID \notin DOMAIN notifying
  /\ fqdnSelectorMutex = 0
  /\ poked' = poked \ {ruleID}
  /\ notifying' = MapPut(notifying, ruleID, ~ok)
  /\ realized' = IF ok
                 THEN [realized EXCEPT
                         ![ruleID] = getIPsForFQDNSelectors(Controller, RuleFQDNs(ruleID))]
                 ELSE realized
  /\ UNCHANGED << conf, now, ctlVars, fqdnSelectorMutex, worker, portVars, trackerVars,
                  waitCh, pkt >>

\* notifyRuleUpdate
notifyRuleUpdate(ruleID) ==
  /\ ruleID \in DOMAIN notifying
  /\ Len(updateCh) < updateChCap
  /\ updateCh' = Append(updateCh, [ruleId |-> ruleID, err |-> notifying[ruleID]])
  /\ notifying' = MapDel(notifying, ruleID)
  /\ UNCHANGED << conf, now, ctlVars, fqdnSelectorMutex, worker, portVars, dirtyRules,
                  ruleToSubscribers, subscribers, trackerRun, lastUpdate, waitCh, pkt,
                  poked, realized >>

-----------------------------------------------------------------------------
(* ruleSyncTracker.Run *)

TrackerIdle == trackerRun.rest = <<>>

\* Run, lines 613-619: the end of the processing of an update
RunFinish(update) ==
  /\ ruleToSubscribers' = MapDel(ruleToSubscribers, update.ruleId)
  /\ dirtyRules' = DirtyAfterUpdate(dirtyRules, update)
  /\ lastUpdate' = [lastUpdate EXCEPT ![update.ruleId] = IF update.err THEN "err" ELSE "ok"]
  /\ trackerRun' = [update |-> NoUpdate, rest |-> <<>>]

\* Run: an update is received and processed, up to a send that blocks
TrackerRun ==
  /\ TrackerIdle
  /\ updateCh # <<>>
  /\ LET update == Head(updateCh)
         subs == IF update.ruleId \in DOMAIN ruleToSubscribers
                 THEN ruleToSubscribers[update.ruleId] ELSE <<>>
         res == RunLoop([subscribers |-> subscribers, waitCh |-> waitCh], subs,
                        update.err)
     IN /\ updateCh' = Tail(updateCh)
        /\ subscribers' = res.st.subscribers
        /\ waitCh' = res.st.waitCh
        /\ IF res.rest = <<>>
           THEN RunFinish(update)
           ELSE /\ trackerRun' = [update |-> update, rest |-> res.rest]
                /\ UNCHANGED << ruleToSubscribers, dirtyRules, lastUpdate >>
  /\ UNCHANGED << conf, now, ctlVars, fqdnSelectorMutex, worker, portVars, pkt,
                  reconcilerVars >>

\* Run: the blocked send goes through and the loop goes on
TrackerUnblock ==
  /\ ~TrackerIdle
  /\ ChanHasRoom(waitCh[Head(trackerRun.rest)])
  /\ LET update == trackerRun.update
         res == ResumeLoop([subscribers |-> subscribers, waitCh |-> waitCh],
                           trackerRun.rest, update.err)
     IN /\ subscribers' = res.st.subscribers
        /\ waitCh' = res.st.waitCh
        /\ IF res.rest = <<>>
           THEN RunFinish(update)
           ELSE /\ trackerRun' = [update |-> update, rest |-> res.rest]
                /\ UNCHANGED << ruleToSubscribers, dirtyRules, lastUpdate >>
  /\ UNCHANGED << conf, now, ctlVars, fqdnSelectorMutex, worker, portVars, updateCh,
                  pkt, reconcilerVars >>

-----------------------------------------------------------------------------
(* HandlePacketIn *)

\* a syncDirtyRules that, without an address update, waits on no rule
NoDirtyCheck(addressUpdate, affected, dirty) == IF addressUpdate THEN affected ELSE {}

\* a syncDirtyRules that, without an address update, still waits on every
\* rule of the name
AllAffectedRules(addressUpdate, affected, dirty) == affected

\* syncDirtyRules, lines 545-552: the rules an intercepted response waits on
RulesToSync(addressUpdate, affected, dirty) ==
  IF ~addressUpdate THEN dirty \cap affected ELSE affected


\* a select that waits on waitCh alone
NoTimer(p) == FALSE

\* HandlePacketIn, lines 850-851: the select waits on the timer as well
TimerArmed(p) == pkt[p].handler = "waiting"

\* a handler that resumes the packet whatever it receives
ResumeAlways(v) == "resumed"

\* HandlePacketIn, lines 853-858: what the handler does with the value received
AfterReceive(v) == IF v # "nil" THEN "dropped" ELSE "resumed"

\* HandlePacketIn, lines 772-774 and 812: the handler makes its waitCh, starts
\* the goroutine and waits
HandlePacketIn(p, pktIn) ==
  /\ pkt[p].handler = "idle"
  /\ \A q \in Packets : q < p => pkt[q].handler # "idle"
  /\ pkt' = [pkt EXCEPT ![p].handler = "waiting", ![p].go = "ready",
                        ![p].in = pktIn, ![p].start = now]
  /\ UNCHANGED << conf, now, ctlVars, fqdnSelectorMutex, worker, portVars, trackerVars,
                  waitCh, reconcilerVars >>

\* the goroutine ends after sending v on waitCh ("none": it sends nothing)
GoroutineEnds(p, v) ==
  /\ pkt' = [pkt EXCEPT ![p].go = "done"]
  /\ waitCh' = IF v = "none" THEN waitCh ELSE [waitCh EXCEPT ![p] = ChanSend(@, v)]

\* ruleSyncTracker.subscribe, then dirtyRuleHandler for each rule
SubscribeAndPoke(p, rules) ==
  /\ dirtyRules' = dirtyRules \cup rules
  /\ ruleToSubscribers' = SubscribeRules(ruleToSubscribers, p, rules)
  /\ subscribers' = [subscribers EXCEPT ![p] = Cardinality(rules)]
  /\ poked' = poked \cup rules

\* the goroutine of HandlePacketIn, lines 812-849, with onDNSResponseMsg,
\* onDNSResponse and syncDirtyRules up to the first call into the tracker;
\* parseDNSResponse read the clock at tp (line 641) and onDNSResponse reads
\* it now (line 430)
GoroutineParsedAt(p, tp) ==
  /\ pkt[p].go = "ready"
  /\ \E what \in {ParsePacketIn(pkt[p].in)},
        parsed \in {parseDNSResponse(pkt[p].in.msg, conf, tp)} :
     \E m \in {MergeResponse(Controller, parsed.fqdn, parsed.responseIPs, now)} :
     \E affected \in {AffectedRules(m.c, parsed.fqdn)} :
     \E rules \in {RulesToSync(m.addressUpdate, affected, dirtyRules)} :
        IF what # "dns"
        THEN /\ GoroutineEnds(p, what)
             /\ UNCHANGED << ctlVars, fqdnSelectorMutex, dirtyRules, ruleToSubscribers,
                             subscribers, poked >>
        ELSE IF parsed.err
        THEN /\ GoroutineEnds(p, "err")
             /\ UNCHANGED << ctlVars, fqdnSelectorMutex, dirtyRules, ruleToSubscribers,
                             subscribers, poked >>
        ELSE IF DOMAIN parsed.responseIPs = {}
        THEN /\ GoroutineEnds(p, "nil")
             /\ UNCHANGED << ctlVars, fqdnSelectorMutex, dirtyRules, ruleToSubscribers,
                             subscribers, poked >>
        ELSE /\ fqdnSelectorMutex = 0
             /\ TrackerIdle
             /\ SetController(m.c)
             /\ IF rules = {}
                THEN /\ waitCh' = [waitCh EXCEPT ![p] = ChanSend(@, "nil")]
                     /\ pkt' = [pkt EXCEPT ![p].go = "done", ![p].affected = affected]
                     /\ UNCHANGED << fqdnSelectorMutex, dirtyRules, ruleToSubscribers,
                                     subscribers, poked >>
                ELSE IF m.addressUpdate
                THEN /\ SubscribeAndPoke(p, rules)
                     /\ pkt' = [pkt EXCEPT ![p].go = "done", ![p].affected = affected,
                                           ![p].subscribed = rules]
                     /\ UNCHANGED << fqdnSelectorMutex, waitCh >>
                ELSE /\ fqdnSelectorMutex' = p
                     /\ pkt' = [pkt EXCEPT ![p].go = "subscribing",
                                           ![p].affected = affected,
                                           ![p].snapshot = rules]
                     /\ UNCHANGED << waitCh, dirtyRules, ruleToSubscribers,
                                     subscribers, poked >>
  /\ UNCHANGED << conf, now, worker, portVars, updateCh, trackerRun, lastUpdate,
                  notifying, realized >>

\* the goroutine, its two readings of the clock giving the same time
PacketGoroutine(p) == GoroutineParsedAt(p, now)

\* the goroutine, started at pkt[p].start, the clock having advanced or not
\* between its two readings
PacketGoroutineLate(p) == \E tp \in pkt[p].start..now : GoroutineParsedAt(p, tp)

\* syncDirtyRules, lines 555-558, after getDirtyRules returned the snapshot
PacketSubscribe(p) ==
  /\ pkt[p].go = "subscribing"
  /\ TrackerIdle
  /\ SubscribeAndPoke(p, pkt[p].snapshot)
  /\ pkt' = [pkt EXCEPT ![p].go = "done", ![p].subscribed = pkt[p].snapshot,
                        ![p].snapshot = {}]
  /\ fqdnSelectorMutex' = 0
  /\ UNCHANGED << conf, now, ctlVars, worker, portVars, updateCh, trackerRun,
                  lastUpdate, waitCh, notifying, realized >>

\* HandlePacketIn, lines 853-858: a value is received on waitCh
PacketReceive(p) ==
  /\ pkt[p].handler = "waiting"
  /\ waitCh[p].buf # <<>>
  /\ LET v == Head(waitCh[p].buf)
         next == AfterReceive(v)
     IN pkt' = [pkt EXCEPT ![p].handler = next, ![p].recv = v,
                           ![p].resumes = @ + (IF next = "resumed" THEN 1 ELSE 0)]
  /\ waitCh' = [waitCh EXCEPT ![p].buf = Tail(@)]
  /\ UNCHANGED << conf, now, ctlVars, fqdnSelectorMutex, worker, portVars, trackerVars,
                  reconcilerVars >>

\* HandlePacketIn, lines 851-852: the timer fires
PacketTimeout(p) ==
  /\ TimerArmed(p)
  /\ now >= pkt[p].start + ruleRealizationTimeout
  /\ pkt' = [pkt EXCEPT ![p].handler = "timeout"]
  /\ UNCHANGED << conf, now, ctlVars, fqdnSelectorMutex, worker, portVars, trackerVars,
                  waitCh, reconcilerVars >>

\* the clock advances by one second, up to limit; a timer that is due fires first
Tick(limit) ==
  /\ now < limit
  /\ \A p \in Packets : TimerArmed(p) => now < pkt[p].start + ruleRealizationTimeout
  /\ now' = now + 1
  /\ UNCHANGED << conf, ctlVars, fqdnSelectorMutex, worker, portVars, trackerVars,
                  waitCh, pkt, reconcilerVars >>

-----------------------------------------------------------------------------
(* The controller with its workers, the tracker loop, the packet handlers,  *)
(* the policy controller and the reconciler                                *)

IPv4Only == [minTTL |-> 0, ipv4Enabled |-> TRUE, ipv6Enabled |-> FALSE,
             dnsServerAddr |-> TRUE]

\* the controller after addFQDNRule for the rules of a sequence
RECURSIVE WithRules(_, _)
WithRules(c, rs) ==
  IF rs = <<>> THEN c
  ELSE WithRules(addFQDNSelector(c, Head(rs), RuleFQDNs(Head(rs))), Tail(rs))

SpecAnswers == {AResponse(nameAX, "10.0.0.1", 5)}

SpecPacketIns == {UDPPacketIn(m) : m \in SpecAnswers}

SpecOutcomes == {[kind |-> "msg", msg |-> m] : m \in SpecAnswers}

\* rule R1 has been added with port p1
Init == InitWith(IPv4Only, WithRules(EmptyController, <<"R1">>), [r \in {"R1"} |-> {"p1"}])

Next ==
  \/ \E n \in {nameAX} : WorkerGet(n)
  \/ \E n \in {nameAX}, out \in SpecOutcomes : WorkerQuery(n, out)
  \/ \E r \in Rules, ok \in BOOLEAN : Reconcile(r, ok)
  \/ \E r \in Rules : notifyRuleUpdate(r)
  \/ TrackerRun
  \/ \E p \in Packets, pktIn \in SpecPacketIns : HandlePacketIn(p, pktIn)
  \/ \E p \in Packets : PacketGoroutine(p)
  \/ \E p \in Packets : PacketSubscribe(p)
  \/ \E p \in Packets : PacketReceive(p)
  \/ \E p \in Packets : PacketTimeout(p)
  \/ Tick(MaxTime)

Spec == Init /\ [][Next]_vars

-----------------------------------------------------------------------------
(* Properties of the packet handler *)

\* the handler of packet p resumes the packet in this step
ResumeStep(p) == pkt[p].handler = "waiting" /\ pkt'[p].handler = "resumed"

\* the name and the addresses of the response packet p carries
PacketParsed(p) == parseDNSResponse(pkt[p].in.msg, conf, 0)

CarriesResponse(p) ==
  /\ ParsePacketIn(pkt[p].in) = "dns"
  /\ ~PacketParsed(p).err
  /\ DOMAIN PacketParsed(p).responseIPs # {}

\* the rules that select the name of the response of packet p
RulesSelecting(p) == AffectedRules(Controller, PacketParsed(p).fqdn)

\* C1: a DNS response is resumed only when every rule that selects its name
\* has been realized with all the addresses the response carries.
C1_ResumedOnlyAfterRealized ==
  [][\A p \in Packets :
       (ResumeStep(p) /\ CarriesResponse(p)) =>
         \A r \in RulesSelecting(p) :
           DOMAIN PacketParsed(p).responseIPs \subseteq realized[r]]_vars

\* C2: a DNS response that carries addresses is never resumed while the last
\* realization update of a rule that selects its name was an error.
C2_NeverResumedWhileRuleFailed ==
  [][\A p \in Packets :
       (ResumeStep(p) /\ CarriesResponse(p)) =>
         \A r \in RulesSelecting(p) : lastUpdate[r] # "err"]_vars

\* C6: the packet is resumed if and only if nil was received on waitCh while
\* the handler waited; an error or the timeout ends the handler without a
\* resume, also when a value reaches waitCh later; no packet is resumed twice.
C6_ResumeIffNilReceived ==
  \A p \in Packets :
    /\ pkt[p].resumes <= 1
    /\ pkt[p].resumes = 1 <=> pkt[p].recv = "nil"
    /\ pkt[p].handler = "resumed" <=> pkt[p].recv = "nil"
    /\ pkt[p].handler = "dropped" <=> pkt[p].recv = "err"
    /\ pkt[p].handler = "timeout" => pkt[p].recv = "none" /\ pkt[p].resumes = 0

\* a handler has timed out and nil has reached its waitCh afterwards, and
\* another handler has received an error
C6_Witness ==
  /\ \E p \in Packets :
        pkt[p].handler = "timeout" /\ waitCh[p].buf = <<"nil">> /\ pkt[p].resumes = 0
  /\ \E p \in Packets : pkt[p].handler = "dropped" /\ pkt[p].recv = "err"

\* C7: a handler never waits longer than ruleRealizationTimeout.
C7_WaitIsBounded ==
  \A p \in Packets :
    pkt[p].handler = "waiting" => now <= pkt[p].start + ruleRealizationTimeout

\* a handler that subscribed to a rule timed out, nothing having been sent to
\* it, and so did a handler whose goroutine ended without a send
C7_Witness ==
  /\ \E p \in Packets :
       /\ pkt[p].handler = "timeout"
       /\ pkt[p].subscribed # {}
       /\ waitCh[p].sent = 0
  /\ \E p \in Packets :
       /\ pkt[p].handler = "timeout"
       /\ pkt[p].go = "done"
       /\ pkt[p].subscribed = {}
       /\ waitCh[p].sent = 0
  /\ now = ruleRealizationTimeout

\* the step in which Run ends the processing of a success update for rule r
SuccessProcessed(r) ==
  /\ TrackerIdle'
  /\ \/ /\ TrackerIdle
        /\ updateCh # <<>>
        /\ Head(updateCh) = [ruleId |-> r, err |-> FALSE]
        /\ updateCh' = Tail(updateCh)
     \/ /\ ~TrackerIdle
        /\ trackerRun.update = [ruleId |-> r, err |-> FALSE]

\* C8: a rule leaves dirtyRules in a step if and only if that step ends the
\* processing of a success update for the rule by Run.
C8_DirtyUntilSuccess ==
  [][\A r \in Rules :
       /\ (r \in dirtyRules /\ r \notin dirtyRules') => SuccessProcessed(r)
       /\ SuccessProcessed(r) => r \notin dirtyRules']_vars

\* a rule a packet subscribed to has left dirtyRules after a success update,
\* and another rule is still dirty after an error update, the timeout of a
\* handler that subscribed to it, and its deletion
C8_Witness ==
  \E r1, r2 \in Rules :
    /\ lastUpdate[r1] = "ok" /\ r1 \notin dirtyRules
    /\ \E p \in Packets : r1 \in pkt[p].subscribed
    /\ lastUpdate[r2] = "err" /\ r2 \in dirtyRules
    /\ \E p \in Packets : r2 \in pkt[p].subscribed /\ pkt[p].handler = "timeout"
    /\ \A fs \in DOMAIN selectorItemToRuleIDs : r2 \notin selectorItemToRuleIDs[fs]

-----------------------------------------------------------------------------
(* The tracker with two rules that select the same name, the packet        *)
(* handlers, the reconciler and rule deletion                              *)

\* the clock stops advancing here
TrackerMaxTime == 2

\* rules R1 and R2 have been added
InitTracker ==
  InitWith(IPv4Only, WithRules(EmptyController, <<"R1", "R2">>),
           [r \in {"R1", "R2"} |-> {"p1"}])

NextTracker ==
  \/ \E r \in {"R2"} : DeleteFQDNRule(r, FALSE)
  \/ \E r \in {"R1", "R2"}, ok \in BOOLEAN : Reconcile(r, ok)
  \/ \E r \in {"R1", "R2"} : notifyRuleUpdate(r)
  \/ TrackerRun
  \/ TrackerUnblock
  \/ \E p \in Packets, pktIn \in SpecPacketIns : HandlePacketIn(p, pktIn)
  \/ \E p \in Packets : PacketGoroutine(p)
  \/ \E p \in Packets : PacketSubscribe(p)
  \/ \E p \in Packets : PacketReceive(p)
  \/ \E p \in Packets : PacketTimeout(p)
  \/ Tick(TrackerMaxTime)

SpecTracker == InitTracker /\ [][NextTracker]_vars

\* C3: at most one value is ever sent on the waitCh of a subscriber.
C3_OneValuePerWaitCh == \A p \in Packets : waitCh[p].sent <= 1

-----------------------------------------------------------------------------
(* The packet handlers on packets of every kind, with rule R1 and the      *)
(* reconciler                                                              *)

NoMsg == [question |-> <<>>, answers |-> <<>>]

\* a packet whose L3 payload is l3 and whose L4 protocol is l4
OtherPacketIn(l3, l4) ==
  [ethOk |-> TRUE, l3 |-> l3, l4 |-> l4, tcpOk |-> FALSE, dnsLenOk |-> FALSE,
   fragment |-> FALSE, partialOk |-> FALSE, unpackOk |-> FALSE, msg |-> NoMsg]

\* a UDP packet whose payload does not unpack
UDPGarbage == [OtherPacketIn("IPv6", "UDP") EXCEPT !.unpackOk = FALSE]

\* a TCP segment: GetTCPPacketFromIPMessage succeeds (tcpOk), GetTCPDNSData
\* succeeds (dnsLenOk), the length field exceeds the data (fragment), the
\* partial or the full unpack succeeds (unpackOk) and gives msg
TCPPacketIn(tcpOk, dnsLenOk, fragment, unpackOk, msg) ==
  [ethOk |-> TRUE, l3 |-> "IPv4", l4 |-> "TCP", tcpOk |-> tcpOk, dnsLenOk |-> dnsLenOk,
   fragment |-> fragment, partialOk |-> fragment /\ unpackOk,
   unpackOk |-> ~fragment /\ unpackOk, msg |-> msg]

ParseAnswer == AResponse(nameAX, "10.0.0.1", 5)

ParsePacketIns ==
  { NoPacketIn,
    OtherPacketIn("ARP", ""),
    OtherPacketIn("IPv4", "ICMP"),
    OtherPacketIn("IPv6", "ICMP"),
    UDPGarbage,
    TCPPacketIn(FALSE, FALSE, FALSE, FALSE, NoMsg),
    TCPPacketIn(TRUE, FALSE, FALSE, FALSE, NoMsg),
    TCPPacketIn(TRUE, TRUE, TRUE, FALSE, NoMsg),
    TCPPacketIn(TRUE, TRUE, FALSE, FALSE, NoMsg),
    TCPPacketIn(TRUE, TRUE, TRUE, TRUE, ParseAnswer),
    TCPPacketIn(TRUE, TRUE, TRUE, TRUE, NoMsg),
    UDPPacketIn(NoMsg),
    UDPPacketIn([ParseAnswer EXCEPT !.answers = <<>>]),
    UDPPacketIn(ParseAnswer) }

NextParse ==
  \/ \E r \in {"R1"}, ok \in BOOLEAN : Reconcile(r, ok)
  \/ \E r \in {"R1"} : notifyRuleUpdate(r)
  \/ TrackerRun
  \/ \E p \in Packets, pktIn \in ParsePacketIns : HandlePacketIn(p, pktIn)
  \/ \E p \in Packets : PacketGoroutine(p)
  \/ \E p \in Packets : PacketSubscribe(p)
  \/ \E p \in Packets : PacketReceive(p)
  \/ \E p \in Packets : PacketTimeout(p)
  \/ Tick(MaxTime)

SpecParse == Init /\ [][NextParse]_vars
\* the packet is not a parseable DNS response: the frame cannot be parsed,
\* the L3 payload is neither IPv4 nor IPv6, the L4 protocol is neither UDP
\* nor TCP, the TCP segment has no valid DNS length prefix, or the payload
\* fails DNS unpacking
UnpackFails(pktIn) ==
  \/ pktIn.l4 = "UDP" /\ ~pktIn.unpackOk
  \/ pktIn.l4 = "TCP" /\ pktIn.tcpOk /\ pktIn.dnsLenOk
       /\ (IF pktIn.fragment THEN ~pktIn.partialOk ELSE ~pktIn.unpackOk)

NotDNSResponse(pktIn) ==
  \/ ~pktIn.ethOk
  \/ pktIn.l3 \notin {"IPv4", "IPv6"}
  \/ pktIn.l4 \notin {"UDP", "TCP"}
  \/ pktIn.l4 = "TCP" /\ (~pktIn.tcpOk \/ ~pktIn.dnsLenOk)
  \/ UnpackFails(pktIn)

\* the goroutine of packet p has run to its end
GoroutineDone(p) == pkt[p].handler # "idle" /\ pkt[p].go = "done"

\* C4: once the goroutine of a packet that is not a parseable DNS response
\* has ended, nil has been sent on the waitCh of the packet, so that the
\* handler resumes the packet; the packet is never dropped after an error.
C4_NonDNSPacketReleased ==
  \A p \in Packets :
    (NotDNSResponse(pkt[p].in) /\ GoroutineDone(p)) =>
      /\ waitCh[p].sent = 1
      /\ pkt[p].handler # "dropped"
      /\ pkt[p].handler = "waiting" => waitCh[p].buf = <<"nil">>

\* the payload of the packet is reached and cannot be turned into a usable
\* response: an unpack fails, or the unpacked message has no question
NoQuestion(pktIn) ==
  /\ ~NotDNSResponse(pktIn)
  /\ pktIn.msg.question = <<>>

UnusablePayload(pktIn) ==
  /\ pktIn.ethOk /\ pktIn.l3 \in {"IPv4", "IPv6"}
  /\ UnpackFails(pktIn) \/ NoQuestion(pktIn)

\* the step in which the goroutine of packet p runs
GoroutineStep(p) == pkt[p].go = "ready" /\ pkt'[p].go # "ready"

\* the controller and the tracker are left as they are
StateUntouched ==
  UNCHANGED << fqdnToSelectorItem, selectorItemToFQDN, selectorItemToRuleIDs,
               dnsEntryCache, dnsQueryQueue, dirtyRules, ruleToSubscribers,
               subscribers, updateCh, poked >>

\* C5 as stated: when the payload of a packet cannot be turned into a usable
\* response, the goroutine sends nil, the packet is resumed and never
\* dropped, and the cache, the selector maps, the queue and the tracker are
\* unchanged.
C5_UnusablePayloadResumed ==
  [][\A p \in Packets :
       UnusablePayload(pkt[p].in) =>
         /\ GoroutineStep(p) => (StateUntouched /\ waitCh'[p].buf = <<"nil">>)
         /\ pkt'[p].handler # "dropped"]_vars

\* C5 as the code has it: the cache, the selector maps, the queue and the
\* tracker are unchanged; when an unpack fails nil is sent and the packet is
\* never dropped after an error; when the unpacked message has no question
\* an error is sent and the packet is never resumed.
C5_UnusablePayloadLeavesState ==
  [][\A p \in Packets :
       UnusablePayload(pkt[p].in) =>
         /\ GoroutineStep(p) =>
              /\ StateUntouched
              /\ waitCh'[p].sent = 1
              /\ waitCh'[p].buf = <<IF NoQuestion(pkt[p].in) THEN "err" ELSE "nil">>
         /\ UnpackFails(pkt[p].in) => pkt'[p].handler # "dropped"
         /\ NoQuestion(pkt[p].in) => pkt'[p].handler # "resumed"]_vars

\* a packet whose payload failed to unpack has been resumed and a packet
\* whose message has no question has been dropped
C5_Witness ==
  /\ \E p \in Packets : UnpackFails(pkt[p].in) /\ pkt[p].handler = "resumed"
  /\ \E p \in Packets : NoQuestion(pkt[p].in) /\ pkt[p].handler = "dropped"
-----------------------------------------------------------------------------
(* The selector index and the cache under rule additions and deletions,    *)
(* the workers and intercepted responses, from the controller as built     *)

IndexNames == {nameAX, nameBX, nameCY}

IndexPacketIns ==
  { UDPPacketIn(AResponse(nameBX, "10.0.0.2", 5)),
    UDPPacketIn(AResponse(nameCY, "10.0.0.3", 5)) }

IndexOutcomes ==
  {[kind |-> "msg", msg |-> AResponse(n, "10.0.0.1", 5)] : n \in IndexNames}

InitIndex == InitWith(IPv4Only, EmptyController, EmptyMap)

NextIndex ==
  \/ \E r \in Rules : AddFQDNRule(r, {"p1"}, FALSE, FALSE)
  \/ \E r \in Rules : DeleteFQDNRule(r, FALSE)
  \/ \E n \in IndexNames : WorkerGet(n)
  \/ \E n \in IndexNames, out \in IndexOutcomes : WorkerQuery(n, out)
  \/ \E p \in Packets, pktIn \in IndexPacketIns : HandlePacketIn(p, pktIn)
  \/ \E p \in Packets : PacketGoroutine(p)
  \/ \E p \in Packets : PacketSubscribe(p)
  \/ \E p \in Packets : PacketReceive(p)

SpecIndex == InitIndex /\ [][NextIndex]_vars
\* C9: a selector is in fqdnToSelectorItem of a name if and only if the name
\* is in selectorItemToFQDN of the selector.
C9_BidirectionalIntegrity ==
  /\ \A f \in DOMAIN fqdnToSelectorItem :
       \A fs \in fqdnToSelectorItem[f] : f \in MapGet(selectorItemToFQDN, fs)
  /\ \A fs \in DOMAIN selectorItemToFQDN :
       \A f \in selectorItemToFQDN[fs] : fs \in MapGet(fqdnToSelectorItem, f)

selectorAnyX == SelectorItemOf(<<"*", ".", "x">>)
selectorBAnyX == SelectorItemOf(<<"b", "*", ".", "x">>)

\* the response of a packet for b.x was selected by the rules R2 and R3
PacketSelectedBX ==
  \E p \in Packets :
    /\ pkt[p].in.msg.question = <<QuestionName(nameBX)>>
    /\ {"R2", "R3"} \subseteq pkt[p].affected

\* rule R2 is deleted and its selector *.x is cleaned up; b.x, which it
\* matched, is still mapped to the selector b*.x, and a.x to its exact
\* selector
C9_Witness ==
  /\ PacketSelectedBX
  /\ selectorAnyX \notin DOMAIN selectorItemToRuleIDs
  /\ nameBX \in DOMAIN dnsEntryCache
  /\ fqdnToSelectorItem[nameBX] = {selectorBAnyX}
  /\ selectorItemToFQDN[selectorBAnyX] = {nameBX}
  /\ nameAX \in DOMAIN dnsEntryCache
  /\ fqdnToSelectorItem[nameAX] = {SelectorItemOf(nameAX)}

\* a registered selector matches the name
Selected(f) == \E fs \in DOMAIN selectorItemToRuleIDs : matches(fs, f)

\* C10 as stated: a name is a key of dnsEntryCache if and only if a
\* registered selector matches it.
C10_CachedIffSelected ==
  \A f \in IndexNames : f \in DOMAIN dnsEntryCache <=> Selected(f)

\* C10 as the code has it: every key of dnsEntryCache is matched by a
\* registered selector that fqdnToSelectorItem maps to it; a name a selector
\* matches is not cached before a response with addresses for it is merged.
C10_CachedOnlyIfSelected ==
  \A f \in DOMAIN dnsEntryCache :
    /\ Selected(f)
    /\ MapGet(fqdnToSelectorItem, f) # {}
    /\ \A fs \in MapGet(fqdnToSelectorItem, f) :
         fs \in DOMAIN selectorItemToRuleIDs /\ matches(fs, f)

\* b.x was cached and is cached no more, its last selector being deleted;
\* a.x is still cached, and a registered selector matches it
C10_Witness ==
  /\ \E p \in Packets :
       /\ pkt[p].in.msg.question = <<QuestionName(nameBX)>>
       /\ pkt[p].affected # {}
  /\ nameBX \notin DOMAIN dnsEntryCache
  /\ ~Selected(nameBX)
  /\ nameAX \in DOMAIN dnsEntryCache
  /\ Selected(nameAX)
-----------------------------------------------------------------------------
(* The merge of responses with different TTLs and addresses for a.x, from  *)
(* intercepted packets and from the workers, as time passes                *)

MergeAnswers ==
  { AResponse(nameAX, "10.0.0.1", 5),
    AResponse(nameAX, "10.0.0.1", 1),
    AResponse(nameAX, "10.0.0.2", 1) }

MergePacketIns == {UDPPacketIn(m) : m \in MergeAnswers}

MergeOutcomes == {[kind |-> "msg", msg |-> m] : m \in MergeAnswers}

NextMerge ==
  \/ \E n \in {nameAX} : WorkerGet(n)
  \/ \E n \in {nameAX}, out \in MergeOutcomes : WorkerQuery(n, out)
  \/ \E n \in {nameAX} : QueueFire(n)
  \/ \E p \in Packets, pktIn \in MergePacketIns : HandlePacketIn(p, pktIn)
  \/ \E p \in Packets : PacketGoroutine(p)
  \/ \E p \in Packets : PacketSubscribe(p)
  \/ \E p \in Packets : PacketReceive(p)
  \/ \E p \in Packets : PacketTimeout(p)
  \/ Tick(MaxTime)

SpecMerge == Init /\ [][NextMerge]_vars

\* C11: in every step, an IP that is cached for a name before and after the
\* step has an expirationTime after it that is not less than the one before.
C11_MergeNeverShortens ==
  [][\A f \in DOMAIN dnsEntryCache \cap DOMAIN dnsEntryCache' :
       \A ip \in DOMAIN dnsEntryCache[f] \cap DOMAIN dnsEntryCache'[f] :
         dnsEntryCache'[f][ip] >= dnsEntryCache[f][ip]]_vars

\* the response with TTL 5 of the first packet was merged at time 0 and the
\* response with TTL 1 for the same address of the second packet, which came
\* later, has been merged too; the address still expires at time 5
C11_Witness ==
  /\ pkt[1].in = UDPPacketIn(AResponse(nameAX, "10.0.0.1", 5))
  /\ pkt[1].start = 0 /\ pkt[1].go = "done"
  /\ pkt[2].in = UDPPacketIn(AResponse(nameAX, "10.0.0.1", 1))
  /\ pkt[2].start >= 1 /\ pkt[2].go = "done"
  /\ nameAX \in DOMAIN dnsEntryCache
  /\ "10.0.0.1" \in DOMAIN dnsEntryCache[nameAX]
  /\ dnsEntryCache[nameAX]["10.0.0.1"] = 5
-----------------------------------------------------------------------------
(* The proactive queries for a.x under every configuration: with and       *)
(* without a DNS server address, with and without IPv6, with a minTTL      *)
(* below and above the TTL of lookupIP; one response is intercepted        *)

QueryConfigs ==
  {[minTTL |-> m, ipv4Enabled |-> TRUE, ipv6Enabled |-> v6, dnsServerAddr |-> srv] :
     m \in {0, defaultTTL + 1}, v6 \in BOOLEAN, srv \in BOOLEAN}

\* a response for the name n with one AAAA record
AAAAResponse(n, ip, ttl) ==
  [question |-> <<QuestionName(n)>>,
   answers |-> << [type |-> "AAAA", ip |-> ip, ttl |-> ttl] >>]

\* a response for the name n without answer records, as for NXDOMAIN
NoAnswer(n) == [question |-> <<QuestionName(n)>>, answers |-> <<>>]

\* the outcomes of dnsClient.ExchangeContext and of resolver.LookupIP
QueryOutcomes ==
  {[kind |-> "error"]}
    \cup {[kind |-> "msg", msg |-> m] :
            m \in {AResponse(nameAX, "10.0.0.1", 1), AAAAResponse(nameAX, "fd00::1", 1),
                   NoAnswer(nameAX)}}
    \cup {[kind |-> "ips", ips |-> ips] : ips \in {{}, {"10.0.0.1"}, {"fd00::1"}}}

QueryPacketIns == {UDPPacketIn(AResponse(nameAX, "10.0.0.1", 1))}

InitQuery ==
  \E cfg \in QueryConfigs :
    InitWith(cfg, WithRules(EmptyController, <<"R1">>), [r \in {"R1"} |-> {"p1"}])

NextQuery ==
  \/ \E n \in {nameAX} : WorkerGet(n)
  \/ \E n \in {nameAX}, out \in QueryOutcomes : WorkerQuery(n, out)
  \/ \E n \in {nameAX} : QueueFire(n)
  \/ \E p \in {1}, pktIn \in QueryPacketIns : HandlePacketIn(p, pktIn)
  \/ \E p \in {1} : PacketGoroutine(p)
  \/ \E p \in {1} : PacketReceive(p)
  \/ \E p \in {1} : PacketTimeout(p)
  \/ Tick(MaxTime)

SpecQuery == InitQuery /\ [][NextQuery]_vars

\* an address of the name f that the step has inserted or refreshed
Inserted(f, ip) ==
  /\ f \in DOMAIN dnsEntryCache' /\ ip \in DOMAIN dnsEntryCache'[f]
  /\ \/ f \notin DOMAIN dnsEntryCache
     \/ ip \notin DOMAIN dnsEntryCache[f]
     \/ dnsEntryCache[f][ip] # dnsEntryCache'[f][ip]

\* C12: every address that a step inserts into dnsEntryCache or refreshes in
\* it, by an intercepted response, a query to the DNS server or a lookup of
\* the host resolver, expires at least minTTL seconds after the time of the
\* step, for every configured minTTL.
C12_TTLFloor ==
  [][\A f \in {nameAX}, ip \in {"10.0.0.1", "fd00::1"} :
       Inserted(f, ip) => dnsEntryCache'[f][ip] - now >= conf.minTTL]_vars
-----------------------------------------------------------------------------
(* addFQDNRule and deleteFQDNRule for the rules R1 and R2 with the ports   *)
(* p1 and p2, with a datapath that can reject an update, and the responses *)
(* that the added rules select                                             *)

PortRules == {"R1", "R2"}

PortSets == {{"p1"}, {"p1", "p2"}}

PortPacketIns == {UDPPacketIn(AResponse(nameAX, "10.0.0.1", 5))}

NextPorts ==
  \/ \E r \in PortRules, ports \in PortSets, addFails \in BOOLEAN, delFails \in BOOLEAN :
       AddFQDNRule(r, ports, addFails, delFails)
  \/ \E r \in PortRules, delFails \in BOOLEAN : DeleteFQDNRule(r, delFails)
  \/ \E p \in Packets, pktIn \in PortPacketIns : HandlePacketIn(p, pktIn)
  \/ \E p \in Packets : PacketGoroutine(p)
  \/ \E p \in Packets : PacketSubscribe(p)
  \/ \E p \in Packets : PacketReceive(p)

SpecPorts == InitIndex /\ [][NextPorts]_vars

\* the step is a call of addFQDNRule or deleteFQDNRule that returned an error
RuleCallFailed ==
  /\ lastRuleCall' # lastRuleCall
  /\ lastRuleCall'.kind # "none"
  /\ ~lastRuleCall'.retry

\* C13: a call of addFQDNRule or deleteFQDNRule whose datapath update fails
\* returns the error and leaves fqdnRuleToSelectedPods as it was before the
\* call.
C13_FailureKeepsMap ==
  [][RuleCallFailed => fqdnRuleToSelectedPods' = fqdnRuleToSelectedPods]_vars

\* C14: after the retry, without a datapath failure, of a call of addFQDNRule
\* or deleteFQDNRule that had failed, the address set of the interception
\* flow is the union of the ports of the registered rules.
C14_RetryRestoresAddressSet ==
  lastRuleCall.retry => ofPorts = PortUnion(fqdnRuleToSelectedPods)
-----------------------------------------------------------------------------
(* getIPsForFQDNSelectors on the selector index and the cache of SpecIndex *)

\* the FQDN lists of the rules and the same lists in reverse order
RECURSIVE Reverse(_)
Reverse(sq) == IF sq = <<>> THEN <<>> ELSE Reverse(Tail(sq)) \o <<Head(sq)>>

ExpressionLists == {RuleFQDNs(r) : r \in Rules} \cup {Reverse(RuleFQDNs(r)) : r \in Rules}

\* the cached IPs of the names that the selector of an expression maps to
CachedIPsOf(expr) ==
  UNION {DOMAIN dnsEntryCache[n] :
           n \in MapGet(selectorItemToFQDN, SelectorItemOf(expr)) \cap DOMAIN dnsEntryCache}

\* every expression of the list is the expression of a registered selector
AllRegistered(fqdns) ==
  \A i \in 1..Len(fqdns) : SelectorItemOf(fqdns[i]) \in DOMAIN selectorItemToRuleIDs

\* C15: for a list of registered FQDN expressions, getIPsForFQDNSelectors
\* returns the union, over all expressions of the list, of the cached IPs of
\* the names the expression's selector maps to, wherever the expression
\* stands in the list and whether or not another expression maps to no name.
C15_UnionOverExpressions ==
  \A fqdns \in ExpressionLists :
    AllRegistered(fqdns) =>
      getIPsForFQDNSelectors(Controller, fqdns)
        = UNION {CachedIPsOf(fqdns[i]) : i \in 1..Len(fqdns)}
-----------------------------------------------------------------------------
(* Matching: the rules R4, with the expression *.k8s.io, and R5, with the  *)
(* expression K8s.IO, are registered; responses arrive for names that fit  *)
(* and names that do not                                                   *)

MatchRules == <<"R4", "R5">>

MatchExpressions == {RuleFQDNs(MatchRules[i])[1] : i \in 1..Len(MatchRules)}

nameK8s == <<"k", "8", "s", ".", "i", "o">>

MatchNames ==
  { <<"f", "o", "o", ".", "k", "8", "s", ".", "i", "o">>,
    <<"a", ".", "b", ".", "k", "8", "s", ".", "i", "o">>,
    <<".", "k", "8", "s", ".", "i", "o">>,
    nameK8s,
    <<"f", "o", "o", "x", "k", "8", "s", "x", "i", "o">>,
    <<"k", "8", "s", ".", "i", "o", ".", "x">> }

MatchPacketIns == {UDPPacketIn(AResponse(n, "10.0.0.1", 5)) : n \in MatchNames}

MatchOutcomes == {[kind |-> "msg", msg |-> AResponse(nameK8s, "10.0.0.2", 5)]}

InitMatch ==
  InitWith(IPv4Only, WithRules(EmptyController, MatchRules),
           [r \in {"R4", "R5"} |-> {"p1"}])

NextMatch ==
  \/ \E n \in {nameK8s} : WorkerGet(n)
  \/ \E n \in {nameK8s}, out \in MatchOutcomes : WorkerQuery(n, out)
  \/ \E p \in Packets, pktIn \in MatchPacketIns : HandlePacketIn(p, pktIn)
  \/ \E p \in Packets : PacketGoroutine(p)
  \/ \E p \in Packets : PacketSubscribe(p)
  \/ \E p \in Packets : PacketReceive(p)

SpecMatch == InitMatch /\ [][NextMatch]_vars

\* whether the whole of the name s fits the pattern pat, in which "*" stands
\* for any sequence of characters and every other character for itself
RECURSIVE Fits(_, _)
Fits(pat, s) ==
  IF pat = <<>> THEN s = <<>>
  ELSE IF Head(pat) = "*"
  THEN Fits(Tail(pat), s) \/ (s # <<>> /\ Fits(pat, Tail(s)))
  ELSE s # <<>> /\ Head(pat) = Head(s) /\ Fits(Tail(pat), Tail(s))

\* the goroutine of packet p has handled a response with addresses
ResponseHandled(p) == pkt[p].go = "done" /\ CarriesResponse(p)

\* C16: a name is mapped to the selector of an expression exactly when the
\* whole name fits the lowercased expression, "*" standing for any sequence
\* of characters, possibly empty, and "." for a dot; a name of a handled
\* response is mapped, and cached, exactly when it fits some expression.
C16_MatchesIffFits ==
  /\ \A n \in DOMAIN fqdnToSelectorItem, e \in MatchExpressions :
       SelectorItemOf(e) \in fqdnToSelectorItem[n] <=> Fits(ToLower(e), n)
  /\ \A p \in Packets :
       ResponseHandled(p) =>
         LET n == PacketParsed(p).fqdn
             fits == \E e \in MatchExpressions : Fits(ToLower(e), n)
         IN /\ n \in DOMAIN fqdnToSelectorItem <=> fits
            /\ n \in DOMAIN dnsEntryCache <=> fits

\* the responses for a.b.k8s.io and for fooxk8sxio have been handled: the
\* first name is cached, the second is not
C16_Witness ==
  /\ ResponseHandled(1) /\ ResponseHandled(2)
  /\ PacketParsed(1).fqdn = <<"a", ".", "b", ".", "k", "8", "s", ".", "i", "o">>
  /\ PacketParsed(2).fqdn = <<"f", "o", "o", "x", "k", "8", "s", "x", "i", "o">>
  /\ PacketParsed(1).fqdn \in DOMAIN dnsEntryCache
  /\ PacketParsed(2).fqdn \notin DOMAIN dnsEntryCache
-----------------------------------------------------------------------------
(* Responses for names that are not cached, in SpecIndex *)

\* the selectors registered before the step that match the name f
MatchingSelectors(f) == {fs \in DOMAIN selectorItemToRuleIDs : matches(fs, f)}

\* the step is the last query of the work item f
WorkerStep(f) == f \in DOMAIN worker /\ f \notin DOMAIN worker'

\* the step handles a response with the addresses ips for the name f, which
\* is not cached: the name is cached and mapped if a selector matches it, and
\* nothing is changed if none does
UncachedHandled(f, ips) ==
  IF MatchingSelectors(f) # {}
  THEN /\ f \in DOMAIN dnsEntryCache' /\ dnsEntryCache'[f] = ips
       /\ f \in DOMAIN fqdnToSelectorItem'
       /\ fqdnToSelectorItem'[f] = MatchingSelectors(f)
  ELSE /\ UNCHANGED << fqdnToSelectorItem, selectorItemToFQDN, selectorItemToRuleIDs,
                       dnsEntryCache, poked >>
       /\ dnsQueryQueue'.dirty = dnsQueryQueue.dirty
       /\ dnsQueryQueue'.waiting = dnsQueryQueue.waiting

\* C17: when onDNSResponse handles a response with addresses for a name that
\* is not cached, the name is cached with the addresses of the response and
\* mapped to every registered selector that matches it if there is one; if
\* there is none, the cache, the selector maps and the queue are unchanged
\* and no rule is handed to dirtyRuleHandler.
C17_UncachedName ==
  [][/\ \A p \in Packets :
          GoroutineStep(p) /\ CarriesResponse(p)
            /\ PacketParsed(p).fqdn \notin DOMAIN dnsEntryCache
          => UncachedHandled(PacketParsed(p).fqdn,
                             parseDNSResponse(pkt[p].in.msg, conf, now).responseIPs)
     /\ \A f \in IndexNames :
          WorkerStep(f) /\ f \notin DOMAIN dnsEntryCache
          => UncachedHandled(f, [ip \in {"10.0.0.1"} |-> now + 5])]_vars

\* the response for c.y, which no selector matches, has been handled and c.y
\* is not cached; b.x is cached and mapped to the two selectors matching it
C17_Witness ==
  /\ \E p \in Packets :
       /\ pkt[p].go = "done" /\ CarriesResponse(p)
       /\ PacketParsed(p).fqdn = nameCY
  /\ nameCY \notin DOMAIN dnsEntryCache
  /\ nameCY \notin DOMAIN fqdnToSelectorItem
  /\ nameBX \in DOMAIN dnsEntryCache
  /\ fqdnToSelectorItem[nameBX] = {selectorAnyX, selectorBAnyX}
-----------------------------------------------------------------------------
(* Eviction by deleteFQDNRule, in SpecIndex *)

\* the step is deleteFQDNRule for the registered rule r
DeleteStep(r) ==
  r \in DOMAIN fqdnRuleToSelectedPods /\ r \notin DOMAIN fqdnRuleToSelectedPods'

\* the selectors that a rule other than r references
ReferencedWithout(r) ==
  {fs \in DOMAIN selectorItemToRuleIDs : selectorItemToRuleIDs[fs] \ {r} # {}}

\* C18: deleteFQDNRule removes the selectors that no other rule references
\* and evicts a name exactly when none of its selectors remains: such a name
\* is absent from dnsEntryCache and fqdnToSelectorItem after the call, and a
\* name that is still mapped to another selector keeps its cache entry and
\* its IPs.
C18_EvictsExactlyUnselected ==
  [][\A r \in Rules :
       DeleteStep(r) =>
         /\ DOMAIN selectorItemToRuleIDs' = ReferencedWithout(r)
         /\ \A f \in DOMAIN fqdnToSelectorItem \cup DOMAIN dnsEntryCache :
              LET remaining == MapGet(fqdnToSelectorItem, f) \cap ReferencedWithout(r)
              IN IF remaining = {}
                 THEN /\ f \notin DOMAIN dnsEntryCache'
                      /\ f \notin DOMAIN fqdnToSelectorItem'
                 ELSE /\ fqdnToSelectorItem'[f] = remaining
                      /\ f \in DOMAIN dnsEntryCache <=> f \in DOMAIN dnsEntryCache'
                      /\ f \in DOMAIN dnsEntryCache =>
                           dnsEntryCache'[f] = dnsEntryCache[f]]_vars

\* the response for b.x was cached for rule R2 alone; R2 has been deleted and
\* R1 has not: b.x is evicted, a.x is cached and mapped to its exact selector
C18_Witness ==
  /\ \E p \in Packets :
       /\ pkt[p].go = "done" /\ PacketParsed(p).fqdn = nameBX
       /\ pkt[p].affected = {"R2"}
  /\ DOMAIN fqdnRuleToSelectedPods = {"R1"}
  /\ nameBX \notin DOMAIN dnsEntryCache
  /\ nameBX \notin DOMAIN fqdnToSelectorItem
  /\ nameAX \in DOMAIN dnsEntryCache
  /\ fqdnToSelectorItem[nameAX] = {SelectorItemOf(nameAX)}
-----------------------------------------------------------------------------
(* Proactive queries that end in a transient DNS error, in SpecQuery *)

\* the outcomes of a query that are transient DNS errors: the exchange or the
\* lookup returns an error, or the server answers without addresses
TransientOutcomes ==
  {[kind |-> "error"], [kind |-> "msg", msg |-> NoAnswer(nameAX)]}

\* the step is the last query of the work item fqdn, with the outcome out
LastQuery(fqdn, out) ==
  /\ fqdn \in DOMAIN worker
  /\ Len(worker[fqdn].todo) = 1
  /\ WorkerQuery(fqdn, out)

\* the step has re-queued the name with the backoff of the rate limiter
Requeued(fqdn) ==
  /\ fqdn \in DOMAIN dnsQueryQueue'.failures
  /\ fqdn \in DOMAIN dnsQueryQueue'.waiting
  /\ dnsQueryQueue'.waiting[fqdn] <= now + maxRetryDelay

\* C19: when the last query of a work item ends in a transient DNS error, a
\* transport error or an answer without addresses, under any configuration
\* of the address families, the name is re-queued with the backoff of the
\* rate limiter and the query leaves dnsEntryCache unchanged.
C19_TransientErrorRequeues ==
  [][\A out \in TransientOutcomes :
       LastQuery(nameAX, out) => Requeued(nameAX) /\ UNCHANGED dnsEntryCache]_vars
-----------------------------------------------------------------------------
(* Run blocked on a send, in SpecTracker *)

\* Run is blocked, with the tracker mutex held, on a send to the waitCh of a
\* subscriber whose handler will receive no more
RunStuck ==
  /\ ~TrackerIdle
  /\ ~ChanHasRoom(waitCh[Head(trackerRun.rest)])
  /\ pkt[Head(trackerRun.rest)].handler # "waiting"

\* C20: Run is never blocked for ever, holding the tracker mutex, on a send
\* to the waitCh of a subscriber: whenever a send of Run is pending, the
\* handler of the subscriber is still there to receive from the channel.
C20_RunNeverStuck == ~RunStuck
-----------------------------------------------------------------------------
(* syncDirtyRules for an intercepted response, in SpecTracker *)

\* the response of packet p as parsed at the time of the step
ParsedNow(p) == parseDNSResponse(pkt[p].in.msg, conf, now)

\* the rules of the selectors mapped to the name of packet p after the step
AffectedAfter(p) ==
  UNION {MapGet(selectorItemToRuleIDs', fs) :
           fs \in MapGet(fqdnToSelectorItem', ParsedNow(p).fqdn)}

\* the set syncDirtyRules has to wait on for packet p
ExpectedToSync(p) ==
  IF MergeResponse(Controller, ParsedNow(p).fqdn, ParsedNow(p).responseIPs, now).addressUpdate
  THEN AffectedAfter(p)
  ELSE AffectedAfter(p) \cap dirtyRules

\* the step subscribes packet p to rules and pokes the reconciler for them
SubscribedTo(p, rules) ==
  /\ pkt'[p].subscribed = rules
  /\ subscribers'[p] = Cardinality(rules)
  /\ dirtyRules' = dirtyRules \cup rules
  /\ poked' = poked \cup rules
  /\ \A r \in rules :
       r \in DOMAIN ruleToSubscribers' /\ \E i \in 1..Len(ruleToSubscribers'[r]) :
                                            ruleToSubscribers'[r][i] = p
  /\ waitCh'[p] = waitCh[p]

\* C21: for an intercepted response with addresses, the set subscribed to and
\* poked is the set A of the rules of the selectors of the name when
\* addressUpdate is true, and A \cap dirtyRules when it is false; nil is
\* sent on waitCh at once, with no subscription and no poke, exactly when
\* that set is empty.
C21_SubscribedSet ==
  [][\A p \in Packets :
       /\ GoroutineStep(p) /\ CarriesResponse(p) =>
            IF ExpectedToSync(p) = {}
            THEN /\ waitCh'[p] = ChanSend(waitCh[p], "nil")
                 /\ pkt'[p].go = "done" /\ pkt'[p].subscribed = {}
                 /\ UNCHANGED << dirtyRules, ruleToSubscribers, subscribers, poked >>
            ELSE \/ pkt'[p].go = "done" /\ SubscribedTo(p, ExpectedToSync(p))
                 \/ /\ pkt'[p].go = "subscribing"
                    /\ pkt'[p].snapshot = ExpectedToSync(p)
                    /\ waitCh'[p] = waitCh[p]
       /\ pkt[p].go = "subscribing" /\ pkt'[p].go = "done" =>
            SubscribedTo(p, pkt[p].snapshot)]_vars

\* the first response was subscribed to R1 and R2; the second one, which
\* brought no address update, to R1 alone, R2 being dirty no more
C21_Witness ==
  /\ pkt[1].go = "done" /\ pkt[1].subscribed = {"R1", "R2"}
  /\ pkt[2].go = "done" /\ pkt[2].affected = {"R1", "R2"}
  /\ pkt[2].subscribed = {"R1"}
-----------------------------------------------------------------------------
(* Responses intercepted after a realization failure, in SpecParse *)

\* the handler of packet q has received the realization failure of rule r,
\* and packet p was intercepted after that: a handler receives nothing once
\* its timer has fired
InterceptedAfterFailure(p, q, r) ==
  /\ pkt[q].recv = "err" /\ pkt[q].subscribed = {r}
  /\ pkt[p].start > pkt[q].start + ruleRealizationTimeout

\* packet p carries a DNS response, with or without addresses, for a name
\* that rule r selects
ResponseFor(p, r) ==
  /\ ParsePacketIn(pkt[p].in) = "dns"
  /\ ~PacketParsed(p).err
  /\ r \in RulesSelecting(p)

\* packet p is resumed only after it has subscribed to rule r or, if it has
\* not, when the last update processed for r is a success
ResumedAfterSuccess(p, r) ==
  ResumeStep(p) => r \in pkt[p].subscribed \/ lastUpdate[r] = "ok"

\* nil is sent to a subscriber of rule r alone only by the step of Run that
\* ends the processing of a success update for r
NilOnlyOnSuccess(p, r) ==
  /\ pkt[p].subscribed = {r}
  /\ waitCh'[p].sent > waitCh[p].sent
  /\ waitCh'[p].buf # <<>> /\ waitCh'[p].buf[Len(waitCh'[p].buf)] = "nil"
  => SuccessProcessed(r)

\* C22 as stated: after the realization failure of a rule has been delivered
\* to a waiting packet, every later intercepted DNS response for a name the
\* rule selects, with or without addresses, is resumed only after a success
\* update for the rule has been processed by Run.
C22_BlockedAfterFailure ==
  [][\A p, q \in Packets : \A r \in {"R1"} :
       /\ InterceptedAfterFailure(p, q, r) /\ ResponseFor(p, r)
            => ResumedAfterSuccess(p, r)
       /\ NilOnlyOnSuccess(p, r)]_vars

\* C22 as the code has it: the same, for the responses that carry at least
\* one address the controller accepts; a response without such an address
\* is resumed at once, whatever the state of the rules.
C22_BlockedAfterFailureWithAddresses ==
  [][\A p, q \in Packets : \A r \in {"R1"} :
       /\ InterceptedAfterFailure(p, q, r) /\ ResponseFor(p, r) /\ CarriesResponse(p)
            => ResumedAfterSuccess(p, r)
       /\ NilOnlyOnSuccess(p, r)]_vars

\* the failure of R1 was delivered to the first packet; the second one, with
\* the same address, was intercepted later, subscribed to R1 and has been
\* resumed, the last update of R1 being a success
C22_Witness ==
  /\ InterceptedAfterFailure(2, 1, "R1")
  /\ ResponseFor(2, "R1") /\ CarriesResponse(2)
  /\ pkt[2].subscribed = {"R1"}
  /\ pkt[2].handler = "resumed"
  /\ lastUpdate["R1"] = "ok"
-----------------------------------------------------------------------------
(* The value Run delivers to a subscriber, in SpecTracker *)

\* the rules in whose list of subscribers packet p stands
Pending(p) ==
  {r \in DOMAIN ruleToSubscribers :
     \E i \in 1..Len(ruleToSubscribers[r]) : ruleToSubscribers[r][i] = p}

\* the step is a step of Run
RunStep ==
  \/ TrackerIdle /\ updateCh # <<>> /\ updateCh' = Tail(updateCh)
  \/ ~TrackerIdle /\ trackerRun' # trackerRun

\* the update that the step of Run processes
RunUpdate == IF TrackerIdle THEN Head(updateCh) ELSE trackerRun.update

\* the step of Run sends the value v on the waitCh of p
RunSends(p, v) ==
  /\ RunStep
  /\ waitCh'[p].sent = waitCh[p].sent + 1
  /\ waitCh'[p].buf[Len(waitCh'[p].buf)] = v

\* C23: Run delivers nil to a subscriber only with the success update of the
\* last of its rules still to be notified, its count having been decremented
\* once by a success update of each other rule it subscribed to and no error
\* update having reached it; the first value it delivers otherwise is the
\* error of an update for one of its rules, which sets the count to zero,
\* and a success update processed after that changes nothing for it.
C23_ValueDelivered ==
  [][\A p \in Packets :
       /\ TrackerIdle /\ subscribers[p] > 0 =>
            /\ subscribers[p] = Cardinality(Pending(p))
            /\ Pending(p) \subseteq pkt[p].subscribed
            /\ waitCh[p].sent = 0
       /\ RunSends(p, "nil") =>
            /\ ~RunUpdate.err /\ RunUpdate.ruleId \in Pending(p)
            /\ waitCh[p].sent = 0
            /\ subscribers'[p] = 0
            /\ TrackerIdle => subscribers[p] = 1
       /\ RunSends(p, "err") /\ waitCh[p].sent = 0 =>
            /\ RunUpdate.err /\ RunUpdate.ruleId \in Pending(p)
            /\ subscribers'[p] = 0
       /\ RunStep /\ TrackerIdle' /\ RunUpdate.err /\ RunUpdate.ruleId \in Pending(p) =>
            subscribers'[p] = 0 /\ waitCh'[p].sent > 0
       /\ RunStep /\ ~RunUpdate.err /\ subscribers[p] = 0 =>
            waitCh'[p] = waitCh[p] /\ subscribers'[p] = 0]_vars

\* a subscriber of R1 and R2 received the error of one rule and was dropped;
\* the success update of the other rule was processed later and sent it
\* nothing; the other subscriber got nil after the success of both rules
C23_Witness ==
  \E p, q \in Packets :
    /\ pkt[p].subscribed = {"R1", "R2"} /\ pkt[p].handler = "dropped"
    /\ waitCh[p].sent = 1 /\ Pending(p) = {}
    /\ pkt[q].subscribed = {"R1", "R2"} /\ pkt[q].handler = "resumed"
    /\ lastUpdate["R1"] = "ok" /\ lastUpdate["R2"] = "ok"
-----------------------------------------------------------------------------
(* The notification that answers the poke of a subscriber, in SpecTracker  *)

\* the poke of the last subscriber of rule r has not been answered by the
\* update Run is about to process: the rule is still waiting to be
\* reconciled, or its reconciliation has a result yet to be sent
PokeUnanswered(r) == r \in poked \/ r \in DOMAIN notifying

\* C24: a subscriber is registered before the reconciler is poked for its
\* rules, and the first update of a rule that Run processes after that, the
\* one that reaches the subscriber, is the notification that answers that
\* poke: when Run takes an update of a rule that has subscribers, no poke
\* for the rule is waiting for its reconciliation or for its notification.
C24_AnswerReachesSubscriber ==
  [][\A r \in Rules :
       /\ RunStep /\ TrackerIdle /\ RunUpdate.ruleId = r
       /\ r \in DOMAIN ruleToSubscribers /\ ruleToSubscribers[r] # <<>>
       => ~PokeUnanswered(r)]_vars
-----------------------------------------------------------------------------
(* The tracker under fair scheduling of Run and of the packet handlers,     *)
(* from the moment the timer of a first subscriber is due                   *)

\* the response intercepted first, at time 0
FirstPacketIn == UDPPacketIn(AResponse(nameAX, "10.0.0.1", 5))

\* onDNSResponse for it, with rules R1 and R2 added
FirstMerge ==
  MergeResponse(WithRules(EmptyController, <<"R1", "R2">>), nameAX,
                parseDNSResponse(FirstPacketIn.msg, IPv4Only, 0).responseIPs, 0)

\* rules R1 and R2 have been added; the goroutine of the first response
\* merged the address, subscribed to both rules and poked the reconciler;
\* ruleRealizationTimeout later the reconciler has not synced them yet
InitFair ==
  /\ conf = IPv4Only
  /\ now = ruleRealizationTimeout
  /\ fqdnToSelectorItem = FirstMerge.c.fqdnToSelectorItem
  /\ selectorItemToFQDN = FirstMerge.c.selectorItemToFQDN
  /\ selectorItemToRuleIDs = FirstMerge.c.selectorItemToRuleIDs
  /\ dnsEntryCache = FirstMerge.c.dnsEntryCache
  /\ dnsQueryQueue = FirstMerge.c.dnsQueryQueue
  /\ fqdnSelectorMutex = 0
  /\ worker = EmptyMap
  /\ fqdnRuleToSelectedPods = [r \in {"R1", "R2"} |-> {"p1"}]
  /\ ofPorts = {"p1"}
  /\ lastRuleCall = NoRuleCall
  /\ dirtyRules = {"R1", "R2"}
  /\ ruleToSubscribers = SubscribeRules(EmptyMap, 1, {"R1", "R2"})
  /\ subscribers = [p \in Packets |-> IF p = 1 THEN 2 ELSE 0]
  /\ updateCh = <<>>
  /\ trackerRun = [update |-> NoUpdate, rest |-> <<>>]
  /\ waitCh = [p \in Packets |-> [buf |-> <<>>, sent |-> 0]]
  /\ pkt = [p \in Packets |->
              IF p = 1
              THEN [handler |-> "waiting", go |-> "done", in |-> FirstPacketIn,
                    start |-> 0, snapshot |-> {}, affected |-> {"R1", "R2"},
                    subscribed |-> {"R1", "R2"}, recv |-> "none", resumes |-> 0]
              ELSE [handler |-> "idle", go |-> "none", in |-> NoPacketIn, start |-> 0,
                    snapshot |-> {}, affected |-> {}, subscribed |-> {},
                    recv |-> "none", resumes |-> 0]]
  /\ poked = {"R1", "R2"}
  /\ notifying = EmptyMap
  /\ realized = [r \in Rules |-> {}]
  /\ lastUpdate = [r \in Rules |-> "none"]

NextFair ==
  \/ \E r \in {"R2"} : DeleteFQDNRule(r, FALSE)
  \/ \E r \in {"R1", "R2"}, ok \in BOOLEAN : Reconcile(r, ok)
  \/ \E r \in {"R1", "R2"} : notifyRuleUpdate(r)
  \/ TrackerRun
  \/ TrackerUnblock
  \/ \E p \in Packets, pktIn \in SpecPacketIns : HandlePacketIn(p, pktIn)
  \/ \E p \in Packets : PacketGoroutine(p)
  \/ \E p \in Packets : PacketSubscribe(p)
  \/ \E p \in Packets : PacketReceive(p)
  \/ \E p \in Packets : PacketTimeout(p)

\* Run is a goroutine of its own (line 588) and the select of a handler
\* (line 850) takes a value that is ready: neither is starved
SpecFair ==
  /\ InitFair /\ [][NextFair]_vars
  /\ WF_vars(TrackerRun) /\ WF_vars(TrackerUnblock)
  /\ \A p \in Packets : WF_vars(PacketReceive(p) \/ PacketTimeout(p))

\* a success notification of rule r has been sent to the tracker
SuccessQueued(r) ==
  \E i \in 1..Len(updateCh) : updateCh[i] = [ruleId |-> r, err |-> FALSE]

\* an error notification has been sent to the tracker, or is being
\* processed by Run, for a rule packet p waits on
ErrorQueued(p) ==
  \E r \in Pending(p) :
    \/ \E i \in 1..Len(updateCh) : updateCh[i] = [ruleId |-> r, err |-> TRUE]
    \/ ~TrackerIdle /\ trackerRun.update = [ruleId |-> r, err |-> TRUE]

\* nil has been sent on the waitCh of packet p
NilSent(p) ==
  \/ pkt[p].recv = "nil"
  \/ \E i \in 1..Len(waitCh[p].buf) : waitCh[p].buf[i] = "nil"

\* C25: under fair scheduling of Run and of the handlers, a subscriber none
\* of whose rules receives an error notification, and each of whose rules
\* receives a success notification while the subscriber waits on it,
\* eventually receives nil on its waitCh.
C25_NilEventuallyDelivered ==
  \A p \in Packets :
    (/\ []~ErrorQueued(p)
     /\ \A r \in {"R1", "R2"} : [](r \in Pending(p) => <>SuccessQueued(r)))
    => [](Pending(p) # {} => <>NilSent(p))
-----------------------------------------------------------------------------
(* The merge of a response into the entry of a cached name, in SpecMerge   *)

\* the responses with addresses that the step hands to onDNSResponse, each
\* as the map of its addresses to their expirationTime: the step is that of
\* the goroutine of an intercepted response or a query of a worker
StepResponses ==
  {ParsedNow(p).responseIPs :
     p \in {q \in Packets : GoroutineStep(q) /\ CarriesResponse(q)}}
  \cup
  {parseDNSResponse(out.msg, conf, now).responseIPs :
     out \in {o \in MergeOutcomes :
                /\ nameAX \in DOMAIN worker /\ worker' # worker
                /\ WorkerQuery(nameAX, o)}}

\* the cached IPs of old that are absent from the response and expired at t
ExpiredAbsent(old, ips, t) == {ip \in DOMAIN old \ DOMAIN ips : old[ip] < t}

\* the entry res is the merge of the response ips into the entry old at t
MergedAsStated(old, ips, t, res) ==
  /\ DOMAIN res = DOMAIN ips \cup ((DOMAIN old \ DOMAIN ips) \ ExpiredAbsent(old, ips, t))
  /\ \A ip \in DOMAIN res :
       /\ ip \in DOMAIN ips /\ ip \in DOMAIN old =>
            /\ res[ip] >= ips[ip] /\ res[ip] >= old[ip]
            /\ res[ip] \in {ips[ip], old[ip]}
       /\ ip \notin DOMAIN ips => res[ip] = old[ip]
       /\ ip \notin DOMAIN old => res[ip] = ips[ip]

\* C26: when a response is merged into the entry of a cached name, the IPs
\* cached after the merge are those of the response and the cached ones
\* that are absent from it and whose expirationTime is not before the time
\* of the merge; the cached IPs absent from it and expired are removed; an
\* IP on both sides has the later of the two expirations, a retained IP its
\* old expiration and a new IP the expiration of the response.
C26_MergedEntry ==
  [][(nameAX \in DOMAIN dnsEntryCache) =>
       \A ips \in StepResponses :
         (nameAX \in DOMAIN dnsEntryCache'
            /\ MergedAsStated(dnsEntryCache[nameAX], ips, now,
                              dnsEntryCache'[nameAX]))]_vars

\* 10.0.0.2 was cached at time 0 until time 1; the response with 10.0.0.1 of
\* the second packet was merged at time 2 or later: 10.0.0.2, absent from it
\* and expired, is gone and 10.0.0.1 has the expiration of the response
C26_Witness ==
  /\ pkt[1].in = UDPPacketIn(AResponse(nameAX, "10.0.0.2", 1))
  /\ pkt[1].start = 0 /\ pkt[1].go = "done"
  /\ pkt[2].in = UDPPacketIn(AResponse(nameAX, "10.0.0.1", 5))
  /\ pkt[2].start = 2 /\ pkt[2].go = "done"
  /\ nameAX \in DOMAIN dnsEntryCache
  /\ DOMAIN dnsEntryCache[nameAX] = {"10.0.0.1"}
  /\ dnsEntryCache[nameAX]["10.0.0.1"] = 7
-----------------------------------------------------------------------------
(* addressUpdate and the set of cached IPs, in SpecMerge *)

\* the IPs cached for the name f in the cache d
CachedSet(d, f) == IF f \in DOMAIN d THEN DOMAIN d[f] ELSE {}

\* C27: onDNSResponse signals an address update exactly when the set of IPs
\* cached for the name changes: the name is cached for the first time, an IP
\* that was not cached is added, or a cached IP that is expired and absent
\* from the response is dropped; a merge that only refreshes or retains the
\* cached IPs signals none.
C27_UpdateIffSetChanges ==
  [][\A ips \in StepResponses :
       MergeResponse(Controller, nameAX, ips, now).addressUpdate
         <=> CachedSet(dnsEntryCache', nameAX) # CachedSet(dnsEntryCache, nameAX)]_vars

\* 10.0.0.1 was cached at time 0 until time 1; the response with 10.0.0.2 of
\* the second packet was merged at time 2: 10.0.0.1 was dropped and 10.0.0.2
\* added, and the packet, with an address update, subscribed to rule R1
C27_Witness ==
  /\ pkt[1].in = UDPPacketIn(AResponse(nameAX, "10.0.0.1", 1))
  /\ pkt[1].start = 0 /\ pkt[1].go = "done"
  /\ pkt[2].in = UDPPacketIn(AResponse(nameAX, "10.0.0.2", 1))
  /\ pkt[2].start = 2 /\ pkt[2].go = "done"
  /\ pkt[2].subscribed = {"R1"}
  /\ CachedSet(dnsEntryCache, nameAX) = {"10.0.0.2"}
-----------------------------------------------------------------------------
(* The re-query of a.x after a merge: responses with a TTL of 0, 1 and 2   *)
(* seconds from one intercepted packet and from the workers, the clock     *)
(* advancing or not between parseDNSResponse and onDNSResponse             *)

RequeryAnswers ==
  { AResponse(nameAX, "10.0.0.1", 0),
    AResponse(nameAX, "10.0.0.1", 2),
    AResponse(nameAX, "10.0.0.2", 1) }

RequeryPacketIns == {UDPPacketIn(m) : m \in RequeryAnswers}

RequeryOutcomes == {[kind |-> "msg", msg |-> m] : m \in RequeryAnswers}

NextRequery ==
  \/ \E n \in {nameAX} : WorkerGet(n)
  \/ \E n \in {nameAX}, out \in RequeryOutcomes : WorkerQuery(n, out)
  \/ \E n \in {nameAX} : QueueFire(n)
  \/ \E p \in {1}, pktIn \in RequeryPacketIns : HandlePacketIn(p, pktIn)
  \/ \E p \in {1} : PacketGoroutineLate(p)
  \/ \E p \in {1} : PacketReceive(p)
  \/ \E p \in {1} : PacketTimeout(p)
  \/ Tick(MaxTime)

SpecRequery == Init /\ [][NextRequery]_vars

\* the step is an onDNSResponse for the name n with addresses, called by the
\* goroutine of an intercepted response or by a worker
MergingStep(n) ==
  \/ \E p \in Packets :
       GoroutineStep(p) /\ CarriesResponse(p) /\ PacketParsed(p).fqdn = n
  \/ /\ n \in DOMAIN worker /\ worker' # worker
     /\ \E out \in RequeryOutcomes : WorkerQuery(n, out)

\* the step is that of a goroutine whose two readings of the clock agree
ParsedAtMergeTime == \E p \in Packets : GoroutineParsedAt(p, now)

\* the least expirationTime of the entry cached for n after the step, minus
\* the time of the merge
RequeryDelay(n) ==
  (CHOOSE t \in {dnsEntryCache'[n][ip] : ip \in DOMAIN dnsEntryCache'[n]} :
     \A ip \in DOMAIN dnsEntryCache'[n] : t <= dnsEntryCache'[n][ip]) - now

\* after the step the name n is scheduled as AddAfter with the delay d leaves
\* it: queued at once when d is not positive, and otherwise waiting until
\* now + d, or until the earlier time it was already waiting for
ScheduledWith(n, d) ==
  IF d <= 0 THEN n \in dnsQueryQueue'.dirty
  ELSE /\ n \in DOMAIN dnsQueryQueue'.waiting
       /\ \/ dnsQueryQueue'.waiting[n] = now + d
          \/ /\ n \in DOMAIN dnsQueryQueue.waiting
             /\ dnsQueryQueue'.waiting[n] = dnsQueryQueue.waiting[n]
             /\ dnsQueryQueue.waiting[n] <= now + d

-----------------------------------------------------------------------------
(* The re-query of a cached name, in SpecQuery *)

\* a query of the name n is delayed, queued or being processed
RequeryPending(n) ==
  \/ n \in DOMAIN dnsQueryQueue.waiting
  \/ n \in dnsQueryQueue.dirty
  \/ n \in dnsQueryQueue.processing

\* C29: while a name is in dnsEntryCache, a query of the name is delayed,
\* queued or being processed, whatever the outcomes of the queries made so
\* far were: answers with addresses, answers without addresses, transport
\* errors.
C29_CachedNameHasRequery ==
  \A n \in DOMAIN dnsEntryCache : RequeryPending(n)
-----------------------------------------------------------------------------
(* The response to a proactive query, in Spec *)

\* the step is a query of a worker for the name n
ProactiveStep(n) == n \in DOMAIN worker /\ worker' # worker

\* the rules of the selectors mapped to the name n after the step
RulesOfNameAfter(n) ==
  UNION {MapGet(selectorItemToRuleIDs', fs) : fs \in MapGet(fqdnToSelectorItem', n)}

\* C30: the response to a proactive query leaves the tracker as it is: no
\* subscriber is registered, dirtyRules and the waitCh of every handler are
\* unchanged; every rule of the name is handed to dirtyRuleHandler when the
\* set of cached IPs of the name changes, and no rule is when it does not.
C30_ProactiveResponse ==
  [][ProactiveStep(nameAX) =>
       (/\ UNCHANGED << dirtyRules, ruleToSubscribers, subscribers, updateCh,
                        trackerRun, waitCh >>
        /\ poked' = poked \cup
                      (IF CachedSet(dnsEntryCache', nameAX) # CachedSet(dnsEntryCache, nameAX)
                       THEN RulesOfNameAfter(nameAX) ELSE {}))]_vars

\* the worker cached a.x before any response was intercepted and R1 was
\* handed to dirtyRuleHandler, with no subscriber and no dirty rule
C30_Witness ==
  /\ \A p \in Packets : pkt[p].handler = "idle"
  /\ nameAX \in DOMAIN dnsEntryCache
  /\ worker = EmptyMap
  /\ poked = {"R1"}
  /\ dirtyRules = {} /\ ruleToSubscribers = EmptyMap
-----------------------------------------------------------------------------
(* addFQDNRule for a rule whose selector is new, in SpecIndex *)

\* the FQDN expressions of the rules that are wildcards
RuleExpressions ==
  UNION {{RuleFQDNs(r)[i] : i \in 1..Len(RuleFQDNs(r))} : r \in Rules}

WildcardExpressions ==
  {e \in RuleExpressions : SelectorItemOf(e).matchRegex # <<>>}

\* the step is an addFQDNRule that registers the selector fs
RegisterStep(fs) ==
  fs \notin DOMAIN selectorItemToRuleIDs /\ fs \in DOMAIN selectorItemToRuleIDs'

\* the cached names that the selector matches
CachedMatches(fs) == {n \in DOMAIN dnsEntryCache : matches(fs, n)}

\* C31: addFQDNRule for a rule whose wildcard selector is new maps the
\* selector, in both directions, to exactly the cached names it matches and
\* enqueues no DNS query for it (the queue changes only if the rule has a
\* new exact selector too); getIPsForFQDNSelectors for the wildcard then
\* returns the IPs cached for those names.
C31_NewWildcardSelector ==
  [][\A e \in WildcardExpressions :
       RegisterStep(SelectorItemOf(e)) =>
         \E fs \in {SelectorItemOf(e)} :
           /\ MapGet(selectorItemToFQDN', fs) = CachedMatches(fs)
           /\ \A n \in DOMAIN fqdnToSelectorItem' \cup CachedMatches(fs) :
                fs \in MapGet(fqdnToSelectorItem', n) <=> n \in CachedMatches(fs)
           /\ dnsEntryCache' = dnsEntryCache
           /\ \/ dnsQueryQueue' = dnsQueryQueue
              \/ /\ RegisterStep(SelectorItemOf(nameAX))
                 /\ dnsQueryQueue' = QueueAdd(dnsQueryQueue, nameAX)
           /\ getIPsForFQDNSelectors(Controller', <<e>>)
                = UNION {DOMAIN dnsEntryCache[n] : n \in CachedMatches(fs)}]_vars

\* b.x was cached when only R3 selected it, and R2 has been added since: its
\* selector *.x is mapped to the cached b.x and getIPsForFQDNSelectors
\* returns the address of b.x for it
C31_Witness ==
  /\ \E p \in Packets : pkt[p].go = "done" /\ PacketParsed(p).fqdn = nameBX
  /\ \A p \in Packets :
       pkt[p].go = "done" /\ PacketParsed(p).fqdn = nameBX => pkt[p].affected = {"R3"}
  /\ "R2" \in MapGet(selectorItemToRuleIDs, selectorAnyX)
  /\ nameBX \in DOMAIN dnsEntryCache
  /\ selectorItemToFQDN[selectorAnyX] = {nameBX}
  /\ fqdnToSelectorItem[nameBX] = {selectorAnyX, selectorBAnyX}
  /\ getIPsForFQDNSelectors(Controller, RuleFQDNs("R2")) = {"10.0.0.2"}

ExactExpressions ==
  {e \in RuleExpressions : SelectorItemOf(e).matchRegex = <<>>}

\* the step is an addFQDNRule that inserts the rule r into the rule set of
\* the selector fs, which is registered already
InsertStep(fs, r) ==
  /\ fs \in DOMAIN selectorItemToRuleIDs /\ r \notin selectorItemToRuleIDs[fs]
  /\ fs \in DOMAIN selectorItemToRuleIDs' /\ r \in selectorItemToRuleIDs'[fs]

\* the names that fqdnToSelectorItem maps to the selector
NamesMappedTo(m, fs) == {n \in DOMAIN m : fs \in m[n]}

\* C32: addFQDNRule for a rule whose exact selector is new records the
\* mapping between the name and the selector and adds the name to the query
\* queue with no delay; addFQDNRule for a rule whose selector is registered
\* already inserts the rule ID into the rule set of the selector and leaves
\* the mappings of the selector, the DNS cache and the query queue as they
\* were.
C32_NewExactAndExistingSelector ==
  [][/\ \A e \in ExactExpressions :
          RegisterStep(SelectorItemOf(e)) =>
            \E fs \in {SelectorItemOf(e)} :
              /\ fs \in MapGet(fqdnToSelectorItem', fs.matchName)
              /\ MapGet(selectorItemToFQDN', fs) = {fs.matchName}
              /\ NamesMappedTo(fqdnToSelectorItem', fs) = {fs.matchName}
              /\ dnsQueryQueue' = QueueAdd(dnsQueryQueue, fs.matchName)
              /\ fs.matchName \in dnsQueryQueue'.dirty
              /\ dnsEntryCache' = dnsEntryCache
     /\ \A e \in RuleExpressions, r \in Rules :
          InsertStep(SelectorItemOf(e), r) =>
            \E fs \in {SelectorItemOf(e)} :
              /\ selectorItemToRuleIDs'[fs] = selectorItemToRuleIDs[fs] \cup {r}
              /\ MapGet(selectorItemToFQDN', fs) = MapGet(selectorItemToFQDN, fs)
              /\ NamesMappedTo(fqdnToSelectorItem', fs)
                   = NamesMappedTo(fqdnToSelectorItem, fs)
              /\ dnsEntryCache' = dnsEntryCache
              /\ dnsQueryQueue' = dnsQueryQueue]_vars

\* R1 and R3 have both been added: the first of them registered the selector
\* of a.x and put a.x in the queue, the second was inserted into the rule
\* set of the selector; the worker has taken a.x from the queue and cached
\* its address, and a.x is not in the queue again
C32_Witness ==
  /\ MapGet(selectorItemToRuleIDs, SelectorItemOf(nameAX)) = {"R1", "R3"}
  /\ selectorItemToFQDN[SelectorItemOf(nameAX)] = {nameAX}
  /\ nameAX \in DOMAIN dnsEntryCache
  /\ nameAX \notin dnsQueryQueue.dirty
  /\ nameAX \notin dnsQueryQueue.processing
-----------------------------------------------------------------------------
(* The registered selectors and the rules that reference them, in SpecIndex *)

\* the selectors of the FQDN expressions of a rule
SelectorsOf(r) == {SelectorItemOf(RuleFQDNs(r)[i]) : i \in 1..Len(RuleFQDNs(r))}

\* the rules added and not deleted since
RegisteredRules == DOMAIN fqdnRuleToSelectedPods

\* the registered rules that reference the selector
RulesReferencing(fs) == {r \in RegisteredRules : fs \in SelectorsOf(r)}

RegisteredSelectors ==
  /\ \A fs \in {SelectorItemOf(e) : e \in RuleExpressions} :
       fs \in DOMAIN selectorItemToRuleIDs <=> RulesReferencing(fs) # {}
  /\ \A fs \in DOMAIN selectorItemToRuleIDs :
       /\ selectorItemToRuleIDs[fs] # {}
       /\ selectorItemToRuleIDs[fs] = RulesReferencing(fs)
  /\ DOMAIN selectorItemToFQDN \subseteq DOMAIN selectorItemToRuleIDs
  /\ \A r \in Rules \ RegisteredRules :
       deleteFQDNSelector(Controller, r, RuleFQDNs(r)) = Controller

\* C33: a selector is a key of selectorItemToRuleIDs if and only if a rule
\* that was added and not deleted since references it, and its rule set is
\* the set of those rules, never empty; every key of selectorItemToFQDN is
\* a key of selectorItemToRuleIDs; deleteFQDNRule for a rule leaves the rule
\* set and the mappings of every selector the rule does not reference as
\* they were.
C33_SelectorsOfRegisteredRules ==
  /\ []RegisteredSelectors
  /\ [][\A r \in Rules :
          DeleteStep(r) =>
            \A fs \in DOMAIN selectorItemToRuleIDs \ SelectorsOf(r) :
              /\ fs \in DOMAIN selectorItemToRuleIDs'
              /\ selectorItemToRuleIDs'[fs] = selectorItemToRuleIDs[fs]
              /\ MapGet(selectorItemToFQDN', fs) = MapGet(selectorItemToFQDN, fs)
              /\ NamesMappedTo(fqdnToSelectorItem', fs)
                   = NamesMappedTo(fqdnToSelectorItem, fs)]_vars

\* R3 selected the response for b.x alone and has been deleted since, while
\* R1 and R2 are registered: the selector of a.x, which R1 and R3
\* referenced, is left with R1, the selector b*.x is gone and *.x is mapped
\* to b.x
C33_Witness ==
  /\ \E p \in Packets :
       /\ pkt[p].go = "done" /\ PacketParsed(p).fqdn = nameBX
       /\ pkt[p].affected = {"R3"}
  /\ RegisteredRules = {"R1", "R2"}
  /\ DOMAIN selectorItemToRuleIDs = {SelectorItemOf(nameAX), selectorAnyX}
  /\ selectorItemToRuleIDs[SelectorItemOf(nameAX)] = {"R1"}
  /\ selectorItemToFQDN[selectorAnyX] = {nameBX}
-----------------------------------------------------------------------------
(* The selectors of the cached names, in SpecIndex *)

\* C34: for every name in the DNS cache, fqdnToSelectorItem[name] is the set
\* of the registered selectors that match the name, whatever rule additions,
\* deletions and DNS responses came before.
C34_CachedNameSelectors ==
  \A n \in DOMAIN dnsEntryCache :
    MapGet(fqdnToSelectorItem, n)
      = {fs \in DOMAIN selectorItemToRuleIDs : matches(fs, n)}

\* the first response for b.x came when R2 and R3 selected it, and the
\* response for a.x is cached: each name is mapped to the two registered
\* selectors that match it
C34_Witness ==
  /\ \E p \in Packets :
       /\ pkt[p].go = "done" /\ PacketParsed(p).fqdn = nameBX
       /\ pkt[p].affected = {"R2", "R3"}
  /\ {nameAX, nameBX} \subseteq DOMAIN dnsEntryCache
  /\ fqdnToSelectorItem[nameBX] = {selectorAnyX, selectorBAnyX}
  /\ fqdnToSelectorItem[nameAX] = {SelectorItemOf(nameAX), selectorAnyX}
  /\ selectorItemToRuleIDs[SelectorItemOf(nameAX)] = {"R3"}
-----------------------------------------------------------------------------
(* addFQDNRule and deleteFQDNRule for the rules R1 and R2 with every set   *)
(* of the ports p1 and p2, with a datapath that accepts every update       *)

AllPortSets == SUBSET {"p1", "p2"}

NextPortsNoFailure ==
  \/ \E r \in PortRules, ports \in AllPortSets : AddFQDNRule(r, ports, FALSE, FALSE)
  \/ \E r \in PortRules : DeleteFQDNRule(r, FALSE)
  \/ \E p \in Packets, pktIn \in PortPacketIns : HandlePacketIn(p, pktIn)
  \/ \E p \in Packets : PacketGoroutine(p)
  \/ \E p \in Packets : PacketSubscribe(p)
  \/ \E p \in Packets : PacketReceive(p)

SpecPortsNoFailure == InitIndex /\ [][NextPortsNoFailure]_vars

\* the step is a call of addFQDNRule or deleteFQDNRule that changes the
\* port set of a rule
RulePortsStep == fqdnRuleToSelectedPods' # fqdnRuleToSelectedPods

\* C35: when no datapath call fails, the address set of the interception
\* flow is, after every addFQDNRule and deleteFQDNRule, the union of the port
\* sets of the registered rules; a port that two rules select is still in
\* the address set after one of them is deleted or selects it no more.
C35_AddressSetIsUnion ==
  /\ [](ofPorts = PortUnion(fqdnRuleToSelectedPods))
  /\ [][RulePortsStep =>
          \A port \in ofPorts :
            (\E r \in DOMAIN fqdnRuleToSelectedPods' :
               port \in fqdnRuleToSelectedPods'[r])
              => port \in ofPorts']_vars

\* R1 and R2 were registered when the response for a.x came, and R1 has
\* been deleted since; R2 selects p1, and p1 is in the address set
C35_Witness ==
  /\ \E p \in Packets : pkt[p].go = "done" /\ pkt[p].affected = {"R1", "R2"}
  /\ DOMAIN fqdnRuleToSelectedPods = {"R2"}
  /\ fqdnRuleToSelectedPods["R2"] = {"p1"}
  /\ ofPorts = {"p1"}
-----------------------------------------------------------------------------
(* The mutex of the selector index while the goroutine calls the tracker *)

\* the step is the call of ruleSyncTracker.subscribe and of dirtyRuleHandler
\* by the goroutine of the packet, after getDirtyRules has returned
TrackerCallStep(p) ==
  /\ pkt[p].go = "subscribing"
  /\ pkt'[p].go = "done"
  /\ pkt'[p].subscribed # {}
  /\ pkt'[p].subscribed \subseteq poked'

\* C36: the goroutine of an intercepted packet does not hold
\* fqdnSelectorMutex when it calls into the tracker (getDirtyRules,
\* subscribe) and when it pokes the reconciler.
C36_MutexFreeAtTrackerCall ==
  [][\A p \in Packets : TrackerCallStep(p) => fqdnSelectorMutex # p]_vars
-----------------------------------------------------------------------------
(* The tracker after a handler has timed out, in SpecTracker *)

\* the step is the timeout of the handler of packet p
TimeoutStep(p) == pkt[p].handler = "waiting" /\ pkt'[p].handler = "timeout"

\* Run is blocked on a send to the waitCh of p, whose handler has timed out,
\* while the handler of q waits for a rule for which Run has sent it nothing
TimedOutBlocks(p, q) ==
  /\ pkt[p].handler = "timeout"
  /\ ~TrackerIdle
  /\ Head(trackerRun.rest) = p
  /\ ~ChanHasRoom(waitCh[p])
  /\ pkt[q].handler = "waiting"
  /\ Pending(q) # {}
  /\ waitCh[q].sent = 0

\* C37: the timeout of a handler leaves the tracker as it was, the rules it
\* subscribed to staying in dirtyRules and in no failed state, so that a
\* later response for the name still waits on them; and the subscriber that
\* timed out never keeps Run from completing the other subscribers of its
\* rules.
C37_TimeoutLeavesTracker ==
  /\ [][\A p \in Packets :
          TimeoutStep(p) =>
            /\ UNCHANGED << dirtyRules, ruleToSubscribers, subscribers, lastUpdate >>
            /\ Pending(p) \subseteq dirtyRules']_vars
  /\ [](\A p, q \in Packets : ~TimedOutBlocks(p, q))
-----------------------------------------------------------------------------
(* subscribe and the counts of the subscribers, in SpecTracker *)

\* the step is the call of subscribe for the waitCh of packet p
SubscribeStep(p) == pkt[p].subscribed = {} /\ pkt'[p].subscribed # {}

\* the list of subscribers of a rule
SubscribersOf(r2s, r) == IF r \in DOMAIN r2s THEN r2s[r] ELSE <<>>

\* C38: subscribe adds, in one step, every rule given to dirtyRules and
\* appends the one subscriber, with a count equal to the number of these
\* rules, to the list of each of them; in every state a subscriber that has
\* been sent no value has a count equal to the number of rules whose list
\* holds it, and every rule with a subscriber in its list is in dirtyRules.
C38_SubscribeAndCounts ==
  /\ [][\A p \in Packets :
          SubscribeStep(p) =>
            \E rules \in {pkt'[p].subscribed} :
              /\ dirtyRules' = dirtyRules \cup rules
              /\ subscribers'[p] = Cardinality(rules)
              /\ \A r \in rules :
                   SubscribersOf(ruleToSubscribers', r)
                     = Append(SubscribersOf(ruleToSubscribers, r), p)
              /\ \A r \in DOMAIN ruleToSubscribers \ rules :
                   /\ r \in DOMAIN ruleToSubscribers'
                   /\ ruleToSubscribers'[r] = ruleToSubscribers[r]
              /\ DOMAIN ruleToSubscribers' = DOMAIN ruleToSubscribers \cup rules
              /\ \A q \in Packets \ {p} : subscribers'[q] = subscribers[q]]_vars
  /\ [](/\ \A p \in Packets :
             waitCh[p].sent = 0 => subscribers[p] = Cardinality(Pending(p))
        /\ \A r \in DOMAIN ruleToSubscribers :
             ruleToSubscribers[r] # <<>> => r \in dirtyRules)

\* a subscriber of R1 and R2 has been sent nothing yet: the success of R1
\* has been processed, its count is one, it stands in the list of R2 alone
\* and R2 is dirty
C38_Witness ==
  \E p \in Packets :
    /\ pkt[p].subscribed = {"R1", "R2"}
    /\ waitCh[p].sent = 0
    /\ lastUpdate["R1"] = "ok"
    /\ subscribers[p] = 1
    /\ Pending(p) = {"R2"}
    /\ dirtyRules = {"R2"}
-----------------------------------------------------------------------------
(* Responses without a usable address: no answer record, an AAAA record    *)
(* while IPv6 is disabled, a CNAME record; rule R1 is registered, the      *)
(* reconciler realizes it or fails                                         *)

\* a response for the name n with one CNAME record
CNAMEResponse(n, ttl) ==
  [question |-> <<QuestionName(n)>>,
   answers |-> << [type |-> "CNAME", ip |-> "", ttl |-> ttl] >>]

UnusableAnswers ==
  {NoAnswer(nameAX), AAAAResponse(nameAX, "fd00::1", 5), CNAMEResponse(nameAX, 5)}

UnusablePacketIns == {UDPPacketIn(m) : m \in UnusableAnswers}

UnusableOutcomes == {[kind |-> "msg", msg |-> m] : m \in UnusableAnswers}

NextUnusable ==
  \/ \E n \in {nameAX} : WorkerGet(n)
  \/ \E n \in {nameAX}, out \in UnusableOutcomes \cup SpecOutcomes : WorkerQuery(n, out)
  \/ \E r \in {"R1"}, ok \in BOOLEAN : Reconcile(r, ok)
  \/ \E r \in {"R1"} : notifyRuleUpdate(r)
  \/ TrackerRun
  \/ \E p \in Packets, pktIn \in UnusablePacketIns \cup SpecPacketIns :
       HandlePacketIn(p, pktIn)
  \/ \E p \in Packets : PacketGoroutine(p)
  \/ \E p \in Packets : PacketSubscribe(p)
  \/ \E p \in Packets : PacketReceive(p)

SpecUnusable == Init /\ [][NextUnusable]_vars

\* C39: a response without a usable address, intercepted or proactive,
\* leaves the DNS cache, the selector maps and the tracker as they were,
\* adds no entry to the query queue and pokes no rule; the goroutine of an
\* intercepted packet sends nil on waitCh in that step, whether the rules
\* that select the name are dirty or not.
C39_UnusableResponse ==
  [][/\ \A p \in Packets :
          GoroutineStep(p) /\ pkt[p].in \in UnusablePacketIns =>
            /\ StateUntouched
            /\ UNCHANGED << fqdnSelectorMutex, lastUpdate, notifying >>
            /\ waitCh'[p] = ChanSend(waitCh[p], "nil")
            /\ pkt'[p].subscribed = {}
     /\ \A out \in UnusableOutcomes :
          (nameAX \in DOMAIN worker /\ worker' # worker /\ WorkerQuery(nameAX, out)) =>
            /\ QueryOutcome(Controller, nameAX, out, conf, now).c = Controller
            /\ UNCHANGED << fqdnToSelectorItem, selectorItemToFQDN,
                            selectorItemToRuleIDs, dnsEntryCache, dirtyRules,
                            ruleToSubscribers, subscribers, updateCh, poked,
                            waitCh >>
            /\ dnsQueryQueue'.dirty = dnsQueryQueue.dirty
            /\ dnsQueryQueue'.waiting = dnsQueryQueue.waiting]_vars

\* the first packet subscribed to R1, which failed to be realized and is
\* dirty; the second packet, a response without a usable address, got nil
\* and was resumed, with no subscription; the address of the first response
\* is cached
C39_Witness ==
  \E p \in Packets :
    /\ pkt[p].in \in UnusablePacketIns
    /\ pkt[p].handler = "resumed"
    /\ pkt[p].subscribed = {}
    /\ \E q \in Packets : q < p /\ pkt[q].subscribed = {"R1"}
    /\ lastUpdate["R1"] = "err"
    /\ "R1" \in dirtyRules
    /\ nameAX \in DOMAIN dnsEntryCache
    /\ nameAX \notin DOMAIN worker
    /\ nameAX \notin dnsQueryQueue.dirty
-----------------------------------------------------------------------------
(* The cache under rule additions and deletions and the merge of responses *)
(* with different TTLs and addresses for a.x, as time passes               *)

CacheAnswers ==
  { AResponse(nameAX, "10.0.0.1", 1),
    AResponse(nameAX, "10.0.0.2", 1) }

CachePacketIns == {UDPPacketIn(m) : m \in CacheAnswers}

CacheOutcomes == {[kind |-> "msg", msg |-> m] : m \in CacheAnswers}

NextCache ==
  \/ \E r \in {"R1", "R2"} : AddFQDNRule(r, {"p1"}, FALSE, FALSE)
  \/ \E r \in {"R1", "R2"} : DeleteFQDNRule(r, FALSE)
  \/ \E n \in {nameAX} : WorkerGet(n)
  \/ \E n \in {nameAX}, out \in CacheOutcomes : WorkerQuery(n, out)
  \/ \E n \in {nameAX} : QueueFire(n)
  \/ \E p \in {1}, pktIn \in CachePacketIns : HandlePacketIn(p, pktIn)
  \/ \E p \in {1} : PacketGoroutine(p)
  \/ \E p \in {1} : PacketReceive(p)
  \/ \E p \in {1} : PacketTimeout(p)
  \/ Tick(TrackerMaxTime)

SpecCache == InitIndex /\ [][NextCache]_vars

\* C40: every name in the DNS cache has at least one IP entry; no merge, no
\* rule addition and no rule deletion leaves a cached name with an empty
\* responseIPs map.
C40_CachedNameHasIP ==
  \A n \in DOMAIN dnsEntryCache : DOMAIN dnsEntryCache[n] # {}

\* R1 and R2 were registered when the response with the address 10.0.0.1
\* was intercepted, and R1 has been deleted since; after a later response
\* the entry of a.x, which R2 selects, holds the address 10.0.0.2 alone
C40_Witness ==
  /\ pkt[1].go = "done" /\ pkt[1].affected = {"R1", "R2"}
  /\ pkt[1].in.msg = AResponse(nameAX, "10.0.0.1", 1)
  /\ DOMAIN fqdnRuleToSelectedPods = {"R2"}
  /\ nameAX \in DOMAIN dnsEntryCache
  /\ DOMAIN dnsEntryCache[nameAX] = {"10.0.0.2"}
  /\ fqdnToSelectorItem[nameAX] = {selectorAnyX}
====
